---- MODULE Spec2Model ----
(***************************************************************************)
(* Supply-chain simulator: message bus, stepped scheduler and the store,   *)
(* warehouse, factory and truck agents that coordinate through the bus.    *)
(*                                                                         *)
(* Three specifications share the definitions below:                       *)
(*   Spec       the closed system: stores, a warehouse, its truck and a    *)
(*              factory registered with the SimulationManager;             *)
(*   BusSpec    the MessageBus driven by arbitrary publish / drain /       *)
(*              unsubscribe / clear calls;                                 *)
(*   TruckSpec  one TruckAgent registered alone and driven by              *)
(*              DISPATCH_ORDER messages published by its callers.          *)
(***************************************************************************)
EXTENDS Integers, Sequences, FiniteSets, TLC

(***************************************************************************)
(* Bounds of the model.                                                    *)
(***************************************************************************)
\* ticks the scheduler may start in one run
MaxTicks == 7
\* publish calls in one run of BusSpec
MaxPublishes == 5
\* MessageBus._max_queue_size of the bus of BusSpec
BusQueueSize == 2
\* DISPATCH_ORDER messages callers publish in one run of TruckSpec
MaxDispatches == 2
\* ticks the scheduler may start in one run of CarrySpec
MaxCarryTicks == 6
\* ORDER_REQUEST messages a store publishes in one run of CarrySpec
MaxCarryOrders == 2
\* ticks the scheduler may start in one run of DropSpec
MaxDropTicks == 3
\* messages the partners publish in one run of DropSpec
MaxDropMessages == 2
\* ticks the scheduler may start in one run of LiveSpec
MaxLiveTicks == 12
\* ticks within which LiveSpec resolves an order
ResolveWithin == 7
\* ticks the scheduler may start in one run of MarketSpec
MaxMarketTicks == 3
\* events the market may trigger in one run of MarketSpec
MaxMarketEvents == 1
\* registrations and unregistrations callers publish in one run of MarketSpec
MaxMarketMessages == 1
\* ticks the scheduler may start in one run of TruckSpec
MaxTruckTicks == 5
\* ticks the scheduler may start in one run of SchedSpec
MaxSchedTicks == 2
\* ORDER_REQUEST messages callers publish in one run of SchedSpec
MaxOrderRequests == 2
\* ticks the scheduler may start in one run of WhSpec
MaxWhTicks == 2
\* messages the partners of the warehouse send it in one run of WhSpec
MaxWhMessages == 3
\* ticks the scheduler may start in one run of StoreSpec
MaxStoreTicks == 2
\* messages the partners of the store send it in one run of StoreSpec
MaxStoreMessages == 2
\* ticks the scheduler may start in one run of FactorySpec
MaxFactoryTicks == 7
\* FACTORY_ORDER messages the warehouse sends in one run of FactorySpec
MaxFactoryOrders == 3

(***************************************************************************)
(* Configuration of the modelled run: the constructor arguments of the     *)
(* agents, scaled down from the defaults of the source so that stock-outs, *)
(* reorders and deliveries all happen within a few ticks.                  *)
(***************************************************************************)
StoreInitialInventory == 2
StoreReorderThreshold == 1
StoreReorderQuantity == 2
WarehouseInitialInventory == 3
WarehouseReorderThreshold == 1
WarehouseReorderQuantity == 2
MaxTrucksPerWarehouse == 1
ProductionCapacity == 1
ProductionTime == 2
\* the defaults of create_factory_agent
DefaultProductionCapacity == 2
DefaultProductionTime == 3
\* distances and speeds are counted in units of 1/200 (0.005), which makes the
\* tolerance 0.01 of _has_reached_destination two units
DistanceScale == 200
TruckSpeed == 2 * DistanceScale
TruckCapacity == 3
\* StoreAgent.demand_rate after construction (1.0)
BaseDemandRate == 1
\* SimulationManager.time_step_duration (1.0)
TimeStepDuration == 1
\* MessageBus._max_queue_size after construction
DefaultMaxQueueSize == 100

Stores == {"store_2", "store_4"}
Warehouses == {"warehouse_1"}
Factories == {"factory_1"}
Trucks == {"truck_warehouse_1_1"}
Markets == {"market_1"}
AgentIds == Stores \cup Warehouses \cup Factories \cup Trucks \cup Markets
\* a caller of the bus that is no agent of the run
External == "dispatcher_x"
Recipients == AgentIds \cup {External}

\* dict iteration order of the inventories
ProductSeq == <<"product_1">>
Products == {ProductSeq[i] : i \in 1..Len(ProductSeq)}
\* every product id an inventory may hold, in the order the default
\* inventories list them
CatalogSeq == <<"product_1", "product_2">>
Catalog == {CatalogSeq[i] : i \in 1..Len(CatalogSeq)}

\* the `None` of an optional field or of dict.get on a missing key
None == "None"

\* CityMap.locations (ids) and the Location each agent is constructed with
Locations == {"loc_w", "loc_f", "loc_s2", "loc_s4"}
LocationOf(a) ==
    CASE a = "store_2" -> "loc_s2"
      [] a = "store_4" -> "loc_s4"
      [] a = "factory_1" -> "loc_f"
      [] OTHER -> "loc_w"

\* Location.distance_to between two known locations (model distances)
distance_to(l1, l2) ==
    IF {l1, l2} = {"loc_w", "loc_s2"} THEN 3 * DistanceScale
    ELSE IF {l1, l2} = {"loc_w", "loc_s4"} THEN 2 * DistanceScale + 1
    ELSE IF {l1, l2} = {"loc_w", "loc_f"} THEN 5 * DistanceScale
    ELSE 4 * DistanceScale

VARIABLES
    \* SimulationManager
    agents, current_step, simulation_time, is_running, is_paused, step_result,
    \* position inside SimulationManager.step
    pc, batch, active_agents,
    \* MessageBus
    queues, subscribers, max_queue_size,
    \* agents
    active, store, wh, fac, truck, market,
    \* wall clock in milliseconds (time.time() * 1000), envelope identities, handler log,
    \* log of update_status calls
    now, serial, handled, status_log,
    \* per recipient: envelopes published since the last drain or discard, and the last drain
    published, last_batch,
    \* messages published by callers of the bus that are no agent of the run
    dispatched,
    \* what the last tick did and what became of each agent, and the
    \* operation the driver of the run called last
    sched_log, last_call

schedVars == <<agents, current_step, simulation_time, is_running, is_paused, step_result>>
posVars == <<pc, batch, active_agents>>
busVars == <<queues, subscribers, max_queue_size>>
agentVars == <<active, store, wh, fac, truck, market>>
ghostVars == <<now, serial, handled, status_log>>
drainVars == <<published, last_batch, dispatched>>
callVars == <<sched_log, last_call>>
vars == <<schedVars, posVars, busVars, agentVars, ghostVars, drainVars, callVars>>

(***************************************************************************)
(* Helpers: Python dicts with insertion order are sequences of records     *)
(* carrying their key in the field order_id.                               *)
(***************************************************************************)
Min(a, b) == IF a < b THEN a ELSE b
Max(a, b) == IF a > b THEN a ELSE b

Range(s) == {s[i] : i \in 1..Len(s)}

\* data.get(key, default)
Get(data, key, default) == IF key \in DOMAIN data THEN data[key] ELSE default

\* Python truthiness of an optional string field
Truthy(v) == v /= None /\ v /= ""

DictHas(d, k) == \E i \in 1..Len(d) : d[i].order_id = k
DictGet(d, k) == d[CHOOSE i \in 1..Len(d) : d[i].order_id = k]
\* d[k] = v : replaces in place when the key exists, appends otherwise
DictSet(d, k, v) ==
    IF DictHas(d, k)
    THEN [i \in 1..Len(d) |-> IF d[i].order_id = k THEN v ELSE d[i]]
    ELSE Append(d, v)
DictDel(d, k) == SelectSeq(d, LAMBDA o : o.order_id /= k)

RECURSIVE SumSeq(_)
SumSeq(s) == IF s = <<>> THEN 0 ELSE Head(s) + SumSeq(Tail(s))

\* the last k elements of s
LastK(s, k) == SubSeq(s, Len(s) - k + 1, Len(s))

(***************************************************************************)
(* MessageBus                                                              *)
(***************************************************************************)
\* variants of publish: no eviction; refuse the newest; prepend
PublishNoEvict(q, m) == [q EXCEPT ![m.recipient] = Append(@, m)]
PublishDropNewest(q, m) ==
    IF Len(q[m.recipient]) >= max_queue_size THEN q
    ELSE [q EXCEPT ![m.recipient] = Append(@, m)]
PublishPrepend(q, m) ==
    LET cur == q[m.recipient]
        kept == IF Len(cur) >= max_queue_size THEN Tail(cur) ELSE cur
    IN  [q EXCEPT ![m.recipient] = <<m>> \o kept]

\* MessageBus.publish: pop(0) when the queue is full, then append
Publish(q, m) ==
    LET cur == q[m.recipient]
        kept == IF Len(cur) >= max_queue_size THEN Tail(cur) ELSE cur
    IN  [q EXCEPT ![m.recipient] = Append(kept, m)]

RECURSIVE PublishAll(_, _)
PublishAll(q, ms) ==
    IF ms = <<>> THEN q ELSE PublishAll(Publish(q, Head(ms)), Tail(ms))

\* variant of deliver_messages: the queue is returned but not cleared
QueueAfterDeliverKept(q, a) == q

\* MessageBus.deliver_messages: the copy that is returned, and the queue after clear()
DeliveredBatch(q, a) == q[a]
QueueAfterDeliver(q, a) == [q EXCEPT ![a] = <<>>]

\* MessageBus.unsubscribe: deletes the handler list and the queue
QueueAfterUnsubscribe(q, a) == [q EXCEPT ![a] = <<>>]

\* variant of clear_all_queues: nothing is cleared
QueueAfterClearKept(q) == q

\* MessageBus.clear_all_queues
QueueAfterClear(q) == [r \in DOMAIN q |-> <<>>]

\* Message(...) as BaseAgent.send_message builds it; ser is the identity of the
\* envelope object, ptick the tick it is published in, pafter whether the
\* recipient's own advance had already drained its mailbox in that tick
Message(sender, recipient, message_type, data) ==
    [sender |-> sender, recipient |-> recipient, message_type |-> message_type,
     data |-> data]


(***************************************************************************)
(* Order                                                                   *)
(***************************************************************************)
\* Order.__init__ raises ValueError on an empty id, product or requester and
\* on a quantity that is not positive
OrderValid(order_id, product_id, quantity, requester) ==
    Truthy(order_id) /\ Truthy(product_id) /\ quantity > 0 /\ Truthy(requester)

\* a new Order: status 'pending'
Order(order_id, product_id, quantity, requester) ==
    [order_id |-> order_id, product_id |-> product_id, quantity |-> quantity,
     requester |-> requester, status |-> "pending", delivery_location |-> None]

\* Order.update_status on the order stored under key k
UpdateStatus(d, k, new_status) ==
    [i \in 1..Len(d) |-> IF d[i].order_id = k
                         THEN [d[i] EXCEPT !.status = new_status] ELSE d[i]]

\* one entry of the status log: a call of update_status on an order held by holder
StatusChange(holder, o, new_status) ==
    [holder |-> holder, from |-> o.status, to |-> new_status]

\* inventory dict: inventory.get(p, 0) and inventory[p] = v
InvGet(inv, p) == IF p \in DOMAIN inv THEN inv[p] ELSE 0
InvSet(inv, p, v) == [k \in DOMAIN inv \cup {p} |-> IF k = p THEN v ELSE inv[k]]
\* keys in iteration order
InvKeys(inv) == SelectSeq(CatalogSeq \o <<None>>, LAMBDA p : p \in DOMAIN inv)

Digits == <<"0", "1", "2", "3", "4", "5", "6", "7", "8", "9">>
\* int(time.time() * 1000) at the successive readings of the clock in one
\* advance of tick n, one per product of the catalogue: the clock has moved on
\* since the tick before, and between two readings of one advance it may or
\* may not have moved on
ClockReadings(n) ==
    {c \in [1..Len(CatalogSeq) -> (10 * n)..(10 * n + Len(CatalogSeq) - 1)] :
        /\ c[1] = 10 * n
        /\ \A i \in 2..Len(CatalogSeq) : c[i] \in {c[i - 1], c[i - 1] + 1}}

\* str(n) of a number below 1000
ToStr(n) ==
    IF n < 10 THEN Digits[n + 1]
    ELSE IF n < 100 THEN Digits[(n \div 10) + 1] \o Digits[(n % 10) + 1]
    ELSE Digits[(n \div 100) + 1] \o Digits[((n \div 10) % 10) + 1]
             \o Digits[(n % 10) + 1]

\* what a handler or an advance returns in the model: the agent's new state,
\* the messages it sent in order, and the update_status calls it made
Result(st, out, log) == [st |-> st, out |-> out, log |-> log]

(***************************************************************************)
(* StoreAgent                                                              *)
(***************************************************************************)
\* StoreAgent.__init__ with the argument initial_inventory
StoreInitOver(initial_inventory) ==
    [inventory |-> initial_inventory,
     pending_orders |-> <<>>,
     demand_rate |-> BaseDemandRate]

StoreInit == StoreInitOver([p \in Products |-> StoreInitialInventory])

\* re.search(r'store_(\d+)', agent_id)
StoreNum(a) == CASE a = "store_2" -> 2 [] a = "store_4" -> 4 [] OTHER -> 0

\* StoreAgent._handle_delivery credits the inventory whenever the order id is
\* in pending_orders (orders are never removed from that table)
StoreHandleDelivery(st, a, m) ==
    LET order_id == Get(m.data, "order_id", None)
        product_id == Get(m.data, "product_id", None)
        quantity == Get(m.data, "quantity", 0)
    IN  IF DictHas(st.pending_orders, order_id)
        THEN Result(
               [st EXCEPT
                  !.inventory = InvSet(@, product_id, InvGet(@, product_id) + quantity),
                  !.pending_orders = UpdateStatus(@, order_id, "delivered")],
               <<>>,
               <<StatusChange("store", DictGet(st.pending_orders, order_id), "delivered")>>)
        ELSE Result(st, <<>>, <<>>)

\* StoreAgent._handle_demand_update
StoreHandleDemandUpdate(st, a, m) ==
    Result([st EXCEPT !.demand_rate = Max(0, Get(m.data, "demand_rate", st.demand_rate))],
           <<>>, <<>>)

\* StoreAgent._handle_order_rejection
StoreHandleOrderRejection(st, a, m) ==
    LET order_id == Get(m.data, "order_id", None)
    IN  IF DictHas(st.pending_orders, order_id)
        THEN Result([st EXCEPT !.pending_orders = UpdateStatus(@, order_id, "cancelled")],
                    <<>>,
                    <<StatusChange("store", DictGet(st.pending_orders, order_id), "cancelled")>>)
        ELSE Result(st, <<>>, <<>>)

\* StoreAgent.handle_message
StoreHandleMessage(st, a, m) ==
    CASE m.message_type = "DELIVERY_NOTIFICATION" -> StoreHandleDelivery(st, a, m)
      [] m.message_type = "DEMAND_UPDATE" -> StoreHandleDemandUpdate(st, a, m)
      [] m.message_type = "ORDER_REJECTED" -> StoreHandleOrderRejection(st, a, m)
      [] OTHER -> Result(st, <<>>, <<>>)

\* max(0, int(demand_rate + random.uniform(-0.5, 0.5))) for a whole-number rate
DemandChoices(rate) == {Max(0, rate - 1), rate}

\* StoreAgent._process_customer_demand with demand dem[p] drawn for product p
RECURSIVE ProcessCustomerDemand(_, _, _)
ProcessCustomerDemand(inv, keys, dem) ==
    IF keys = <<>> THEN inv
    ELSE LET p == Head(keys)
             available == InvGet(inv, p)
             sold == Min(dem[p], available)
         IN  ProcessCustomerDemand(
                 IF dem[p] > 0 /\ sold > 0 THEN InvSet(inv, p, available - sold) ELSE inv,
                 Tail(keys), dem)

\* StoreAgent._place_order; its call of time.time() is the next reading of the
\* clock in this advance, one reading per order placed so far
StorePlaceOrder(r, a, product_id, quantity, clock) ==
    LET order_id == a \o "_order_" \o ToStr(clock[Len(r.out) + 1])
        warehouse_id == IF StoreNum(a) /= 0
                        THEN "warehouse_" \o ToStr(1 + (StoreNum(a) % 2))
                        ELSE "warehouse_1"
        order_data == [order_id |-> order_id, product_id |-> product_id,
                       quantity |-> quantity, requester |-> a,
                       delivery_location |-> LocationOf(a)]
    IN  Result([r.st EXCEPT !.pending_orders =
                    DictSet(@, order_id, Order(order_id, product_id, quantity, a))],
               Append(r.out, Message(a, warehouse_id, "ORDER_REQUEST", order_data)),
               r.log)

\* StoreAgent._check_and_reorder
RECURSIVE StoreCheckAndReorder(_, _, _, _)
StoreCheckAndReorder(r, a, keys, clock) ==
    IF keys = <<>> THEN r
    ELSE LET p == Head(keys)
             pending_for_product ==
                 \E i \in 1..Len(r.st.pending_orders) :
                     /\ r.st.pending_orders[i].product_id = p
                     /\ r.st.pending_orders[i].status = "pending"
         IN  StoreCheckAndReorder(
                 IF r.st.inventory[p] <= StoreReorderThreshold /\ ~pending_for_product
                 THEN StorePlaceOrder(r, a, p, StoreReorderQuantity, clock)
                 ELSE r,
                 a, Tail(keys), clock)

\* StoreAgent.step after its process_messages
StoreStep(st, a, dem, clock) ==
    LET inv == ProcessCustomerDemand(st.inventory, InvKeys(st.inventory), dem)
        st1 == [st EXCEPT !.inventory = inv]
    IN  StoreCheckAndReorder(Result(st1, <<>>, <<>>), a, InvKeys(inv), clock)


(***************************************************************************)
(* WarehouseAgent                                                          *)
(***************************************************************************)
\* dict of truck_id -> order_id
MapSet(f, k, v) == [x \in DOMAIN f \cup {k} |-> IF x = k THEN v ELSE f[x]]
MapDel(f, k) == [x \in DOMAIN f \ {k} |-> f[x]]
EmptyMap == [x \in {} |-> None]

\* WarehouseAgent.__init__ with the argument initial_inventory
WarehouseInitOver(a, initial_inventory) ==
    [inventory |-> initial_inventory,
     pending_store_orders |-> <<>>,
     pending_factory_orders |-> <<>>,
     processing_orders |-> <<>>,
     available_trucks |-> [i \in 1..MaxTrucksPerWarehouse |->
                              "truck_" \o a \o "_" \o ToStr(i)],
     assigned_trucks |-> EmptyMap]

WarehouseInit(a) == WarehouseInitOver(a, [p \in Products |-> WarehouseInitialInventory])

\* WarehouseAgent._handle_store_order
WarehouseHandleStoreOrder(st, a, m) ==
    LET order_id == Get(m.data, "order_id", None)
        product_id == Get(m.data, "product_id", None)
        quantity == Get(m.data, "quantity", 0)
        requester == Get(m.data, "requester", None)
        delivery_location == Get(m.data, "delivery_location", None)
        order == [Order(order_id, product_id, quantity, requester)
                    EXCEPT !.delivery_location = delivery_location]
    IN  IF OrderValid(order_id, product_id, quantity, requester)
        THEN Result([st EXCEPT !.pending_store_orders = DictSet(@, order_id, order)],
                    <<>>, <<>>)
        ELSE Result(st, <<>>, <<>>)

\* variant of _handle_delivery_complete: the truck is not put back on
\* available_trucks
WarehouseHandleDeliveryCompleteKeepsTruck(st, a, m) ==
    LET order_id == Get(m.data, "order_id", None)
    IN  IF DictHas(st.processing_orders, order_id)
        THEN LET order == DictGet(st.processing_orders, order_id)
                 delivery_data == [order_id |-> order_id, product_id |-> order.product_id,
                                   quantity |-> order.quantity]
             IN  Result([st EXCEPT !.processing_orders = DictDel(@, order_id)],
                        <<Message(a, order.requester, "DELIVERY_NOTIFICATION", delivery_data)>>,
                        <<StatusChange("warehouse", order, "delivered")>>)
        ELSE Result(st, <<>>, <<>>)

\* WarehouseAgent._handle_delivery_complete
WarehouseHandleDeliveryComplete(st, a, m) ==
    LET truck_id == m.sender
        order_id == Get(m.data, "order_id", None)
        st1 == IF truck_id \in DOMAIN st.assigned_trucks
               THEN [st EXCEPT !.assigned_trucks = MapDel(@, truck_id),
                               !.available_trucks = Append(@, truck_id)]
               ELSE st
    IN  IF DictHas(st1.processing_orders, order_id)
        THEN LET order == DictGet(st1.processing_orders, order_id)
                 delivery_data == [order_id |-> order_id, product_id |-> order.product_id,
                                   quantity |-> order.quantity]
             IN  Result([st1 EXCEPT !.processing_orders = DictDel(@, order_id)],
                        <<Message(a, order.requester, "DELIVERY_NOTIFICATION", delivery_data)>>,
                        <<StatusChange("warehouse", order, "delivered")>>)
        ELSE Result(st1, <<>>, <<>>)

\* variant of _handle_production_complete: the order id is not looked up
WarehouseHandleProductionCompleteAny(st, a, m) ==
    LET order_id == Get(m.data, "order_id", None)
        product_id == Get(m.data, "product_id", None)
        quantity == Get(m.data, "quantity", 0)
    IN  Result([st EXCEPT
                  !.inventory = InvSet(@, product_id, InvGet(@, product_id) + quantity),
                  !.pending_factory_orders = DictDel(@, order_id)],
               <<>>, <<>>)

\* WarehouseAgent._handle_production_complete
WarehouseHandleProductionComplete(st, a, m) ==
    LET order_id == Get(m.data, "order_id", None)
        product_id == Get(m.data, "product_id", None)
        quantity == Get(m.data, "quantity", 0)
    IN  IF DictHas(st.pending_factory_orders, order_id)
        THEN Result([st EXCEPT
                       !.inventory = InvSet(@, product_id, InvGet(@, product_id) + quantity),
                       !.pending_factory_orders = DictDel(@, order_id)],
                    <<>>,
                    <<StatusChange("warehouse_factory_order",
                                   DictGet(st.pending_factory_orders, order_id), "delivered")>>)
        ELSE Result(st, <<>>, <<>>)

\* variant of _handle_truck_available: the truck id is appended without the
\* test that it is not yet in the pool
WarehouseHandleTruckAvailableAppend(st, a, m) ==
    LET truck_id == m.sender
        st1 == IF truck_id \in DOMAIN st.assigned_trucks
               THEN [st EXCEPT !.assigned_trucks = MapDel(@, truck_id)] ELSE st
    IN  Result([st1 EXCEPT !.available_trucks = Append(@, truck_id)], <<>>, <<>>)

\* WarehouseAgent._handle_truck_available
WarehouseHandleTruckAvailable(st, a, m) ==
    LET truck_id == m.sender
        st1 == IF truck_id \in DOMAIN st.assigned_trucks
               THEN [st EXCEPT !.assigned_trucks = MapDel(@, truck_id)] ELSE st
    IN  Result(IF truck_id \notin Range(st1.available_trucks)
               THEN [st1 EXCEPT !.available_trucks = Append(@, truck_id)] ELSE st1,
               <<>>, <<>>)

\* WarehouseAgent.handle_message
WarehouseHandleMessage(st, a, m) ==
    CASE m.message_type = "ORDER_REQUEST" -> WarehouseHandleStoreOrder(st, a, m)
      [] m.message_type = "DELIVERY_COMPLETE" -> WarehouseHandleDeliveryComplete(st, a, m)
      [] m.message_type = "PRODUCTION_COMPLETE" -> WarehouseHandleProductionComplete(st, a, m)
      [] m.message_type = "TRUCK_AVAILABLE" -> WarehouseHandleTruckAvailable(st, a, m)
      [] OTHER -> Result(st, <<>>, <<>>)

\* WarehouseAgent._place_factory_order; its call of time.time() is the next
\* reading of the clock in this advance, one reading per order placed so far
WarehousePlaceFactoryOrder(r, a, product_id, quantity, clock) ==
    LET order_id == a \o "_factory_order_" \o ToStr(clock[Len(r.out) + 1])
        factory_order_data == [order_id |-> order_id, product_id |-> product_id,
                               quantity |-> quantity, requester |-> a]
    IN  Result([r.st EXCEPT !.pending_factory_orders =
                    DictSet(@, order_id, Order(order_id, product_id, quantity, a))],
               Append(r.out, Message(a, "factory_1", "FACTORY_ORDER", factory_order_data)),
               r.log)

\* variant of _check_and_reorder_from_factory: reorders only below the
\* threshold
RECURSIVE WarehouseCheckAndReorderBelow(_, _, _, _)
WarehouseCheckAndReorderBelow(r, a, keys, clock) ==
    IF keys = <<>> THEN r
    ELSE LET p == Head(keys)
             pending_for_product ==
                 \E i \in 1..Len(r.st.pending_factory_orders) :
                     /\ r.st.pending_factory_orders[i].product_id = p
                     /\ r.st.pending_factory_orders[i].status = "pending"
         IN  WarehouseCheckAndReorderBelow(
                 IF r.st.inventory[p] < WarehouseReorderThreshold /\ ~pending_for_product
                 THEN WarehousePlaceFactoryOrder(r, a, p, WarehouseReorderQuantity, clock)
                 ELSE r,
                 a, Tail(keys), clock)

\* WarehouseAgent._check_and_reorder_from_factory
RECURSIVE WarehouseCheckAndReorder(_, _, _, _)
WarehouseCheckAndReorder(r, a, keys, clock) ==
    IF keys = <<>> THEN r
    ELSE LET p == Head(keys)
             pending_for_product ==
                 \E i \in 1..Len(r.st.pending_factory_orders) :
                     /\ r.st.pending_factory_orders[i].product_id = p
                     /\ r.st.pending_factory_orders[i].status = "pending"
         IN  WarehouseCheckAndReorder(
                 IF r.st.inventory[p] <= WarehouseReorderThreshold /\ ~pending_for_product
                 THEN WarehousePlaceFactoryOrder(r, a, p, WarehouseReorderQuantity, clock)
                 ELSE r,
                 a, Tail(keys), clock)

\* variant of _can_fulfill_order: any order can be fulfilled
CanFulfillAlways(st, order) == TRUE

\* WarehouseAgent._can_fulfill_order
CanFulfillOrder(st, order) == InvGet(st.inventory, order.product_id) >= order.quantity

\* variant of _dispatch_truck_for_order: the truck is not taken from the pool
WarehouseDispatchTruckKept(r, a, order) ==
    LET truck_id == Head(r.st.available_trucks)
        dispatch_data == [order_id |-> order.order_id, product_id |-> order.product_id,
                          quantity |-> order.quantity, pickup_location |-> LocationOf(a),
                          delivery_location |-> order.delivery_location,
                          recipient |-> order.requester]
    IN  Result([r.st EXCEPT !.assigned_trucks = MapSet(@, truck_id, order.order_id)],
               Append(r.out, Message(a, truck_id, "DISPATCH_ORDER", dispatch_data)),
               r.log)

\* WarehouseAgent._dispatch_truck_for_order when a truck is available
WarehouseDispatchTruck(r, a, order) ==
    LET truck_id == Head(r.st.available_trucks)
        dispatch_data == [order_id |-> order.order_id, product_id |-> order.product_id,
                          quantity |-> order.quantity, pickup_location |-> LocationOf(a),
                          delivery_location |-> order.delivery_location,
                          recipient |-> order.requester]
    IN  Result([r.st EXCEPT !.available_trucks = Tail(@),
                            !.assigned_trucks = MapSet(@, truck_id, order.order_id)],
               Append(r.out, Message(a, truck_id, "DISPATCH_ORDER", dispatch_data)),
               r.log)

\* variant of _reject_order: no message is sent
WarehouseRejectOrderSilent(r, a, order) == r

\* WarehouseAgent._reject_order
WarehouseRejectOrder(r, a, order) ==
    Result(r.st,
           Append(r.out, Message(a, order.requester, "ORDER_REJECTED",
                                 [order_id |-> order.order_id,
                                  reason |-> "Insufficient inventory"])),
           r.log)

\* variant of the loop body: a dispatched order is marked 'shipped'
WarehouseProcessOneShipped(r, a, order) ==
    IF CanFulfillOrder(r.st, order)
    THEN IF r.st.available_trucks /= <<>>
         THEN LET d == WarehouseDispatchTruck(r, a, order)
                  shipped == [order EXCEPT !.status = "shipped"]
              IN  Result([d.st EXCEPT
                            !.processing_orders = DictSet(@, order.order_id, shipped),
                            !.pending_store_orders = DictDel(@, order.order_id),
                            !.inventory = InvSet(@, order.product_id,
                                                 InvGet(@, order.product_id) - order.quantity)],
                         d.out,
                         Append(d.log, StatusChange("warehouse", order, "shipped")))
         ELSE r
    ELSE LET j == WarehouseRejectOrder(r, a, order)
         IN  Result([j.st EXCEPT !.pending_store_orders = DictDel(@, order.order_id)],
                    j.out, j.log)

\* variant of the loop body: the inventory test is repeated after the debit of
\* a dispatched order, which then is rejected as well
WarehouseProcessOneRecheck(r, a, order) ==
    IF CanFulfillOrder(r.st, order)
    THEN IF r.st.available_trucks /= <<>>
         THEN LET d == WarehouseDispatchTruck(r, a, order)
                  processing == [order EXCEPT !.status = "processing"]
                  debited == [d.st EXCEPT
                                !.processing_orders = DictSet(@, order.order_id, processing),
                                !.pending_store_orders = DictDel(@, order.order_id),
                                !.inventory = InvSet(@, order.product_id,
                                                 InvGet(@, order.product_id) - order.quantity)]
                  log == Append(d.log, StatusChange("warehouse", order, "processing"))
              IN  IF CanFulfillOrder(debited, order)
                  THEN Result(debited, d.out, log)
                  ELSE WarehouseRejectOrder(Result(debited, d.out, log), a, order)
         ELSE r
    ELSE LET j == WarehouseRejectOrder(r, a, order)
         IN  Result([j.st EXCEPT !.pending_store_orders = DictDel(@, order.order_id)],
                    j.out, j.log)

\* variant of the loop body: an order that finds no truck is rejected
WarehouseProcessOneNoWait(r, a, order) ==
    IF CanFulfillOrder(r.st, order) /\ r.st.available_trucks /= <<>>
    THEN LET d == WarehouseDispatchTruck(r, a, order)
             processing == [order EXCEPT !.status = "processing"]
         IN  Result([d.st EXCEPT
                       !.processing_orders = DictSet(@, order.order_id, processing),
                       !.pending_store_orders = DictDel(@, order.order_id),
                       !.inventory = InvSet(@, order.product_id,
                                            InvGet(@, order.product_id) - order.quantity)],
                    d.out,
                    Append(d.log, StatusChange("warehouse", order, "processing")))
    ELSE LET j == WarehouseRejectOrder(r, a, order)
         IN  Result([j.st EXCEPT !.pending_store_orders = DictDel(@, order.order_id)],
                    j.out, j.log)

\* one iteration of the loop of WarehouseAgent._process_pending_orders; the
\* orders collected in orders_to_remove are deleted as they are collected,
\* which the loop never reads back
WarehouseProcessOne(r, a, order) ==
    IF CanFulfillOrder(r.st, order)
    THEN IF r.st.available_trucks /= <<>>
         THEN LET d == WarehouseDispatchTruck(r, a, order)
                  processing == [order EXCEPT !.status = "processing"]
              IN  Result([d.st EXCEPT
                            !.processing_orders = DictSet(@, order.order_id, processing),
                            !.pending_store_orders = DictDel(@, order.order_id),
                            !.inventory = InvSet(@, order.product_id,
                                                 InvGet(@, order.product_id) - order.quantity)],
                         d.out,
                         Append(d.log, StatusChange("warehouse", order, "processing")))
         ELSE r
    ELSE LET j == WarehouseRejectOrder(r, a, order)
         IN  Result([j.st EXCEPT !.pending_store_orders = DictDel(@, order.order_id)],
                    j.out, j.log)

\* WarehouseAgent._process_pending_orders over the orders pending at its start
RECURSIVE WarehouseProcessPendingOrders(_, _, _)
WarehouseProcessPendingOrders(r, a, orders) ==
    IF orders = <<>> THEN r
    ELSE WarehouseProcessPendingOrders(WarehouseProcessOne(r, a, Head(orders)),
                                       a, Tail(orders))

\* WarehouseAgent.step after its process_messages
WarehouseStep(st, a, clock) ==
    LET r1 == WarehouseCheckAndReorder(Result(st, <<>>, <<>>), a, InvKeys(st.inventory), clock)
    IN  WarehouseProcessPendingOrders(r1, a, r1.st.pending_store_orders)


(***************************************************************************)
(* FactoryAgent                                                            *)
(***************************************************************************)
\* FactoryAgent.__init__ with the arguments production_capacity and
\* production_time
FactoryInitOver(production_capacity, production_time) ==
    [production_capacity |-> production_capacity,
     production_time |-> production_time,
     finished_goods_inventory |-> [p \in Products |-> 0],
     production_queue |-> <<>>,
     active_production |-> <<>>,
     current_time_step |-> 0]

FactoryInit == FactoryInitOver(ProductionCapacity, ProductionTime)

\* FactoryAgent._notify_production_complete
FactoryNotify(r, a, order) ==
    Result(r.st,
           Append(r.out, Message(a, order.requester, "PRODUCTION_COMPLETE",
                                 [order_id |-> order.order_id,
                                  product_id |-> order.product_id,
                                  quantity |-> order.quantity])),
           Append(r.log, StatusChange("factory", order, "delivered")))

\* FactoryAgent._handle_factory_order, with _fulfill_from_inventory
FactoryHandleFactoryOrder(st, a, m) ==
    LET order_id == Get(m.data, "order_id", None)
        product_id == Get(m.data, "product_id", None)
        quantity == Get(m.data, "quantity", 0)
        requester == Get(m.data, "requester", None)
        order == Order(order_id, product_id, quantity, requester)
        available_inventory == InvGet(st.finished_goods_inventory, product_id)
    IN  IF ~(Truthy(order_id) /\ Truthy(product_id) /\ quantity > 0 /\ Truthy(requester))
        THEN Result(st, <<>>, <<>>)
        ELSE IF available_inventory >= quantity
        THEN FactoryNotify(
               Result([st EXCEPT !.finished_goods_inventory =
                           InvSet(@, product_id, InvGet(@, product_id) - quantity)],
                      <<>>, <<>>),
               a, order)
        ELSE Result([st EXCEPT !.production_queue = Append(@, order)], <<>>, <<>>)

\* FactoryAgent.handle_message
FactoryHandleMessage(st, a, m) ==
    CASE m.message_type = "FACTORY_ORDER" -> FactoryHandleFactoryOrder(st, a, m)
      [] OTHER -> Result(st, <<>>, <<>>)

\* FactoryAgent._check_production_completion over the jobs collected as completed
RECURSIVE FactoryComplete(_, _, _)
FactoryComplete(r, a, jobs) ==
    IF jobs = <<>> THEN r
    ELSE LET order == Head(jobs).order
             credited == [r.st EXCEPT
                            !.finished_goods_inventory =
                                InvSet(@, order.product_id,
                                       InvGet(@, order.product_id) + order.quantity),
                            !.active_production = DictDel(@, order.order_id)]
         IN  FactoryComplete(FactoryNotify(Result(credited, r.out, r.log), a, order),
                             a, Tail(jobs))

\* FactoryAgent._start_new_production
RECURSIVE FactoryStartNewProduction(_, _)
FactoryStartNewProduction(r, available_capacity) ==
    IF available_capacity > 0 /\ r.st.production_queue /= <<>>
    THEN LET order == Head(r.st.production_queue)
             job == [order_id |-> order.order_id,
                     order |-> [order EXCEPT !.status = "processing"],
                     start_time |-> r.st.current_time_step,
                     completion_time |-> r.st.current_time_step + r.st.production_time]
         IN  FactoryStartNewProduction(
                 Result([r.st EXCEPT !.production_queue = Tail(@),
                                     !.active_production = DictSet(@, order.order_id, job)],
                        r.out,
                        Append(r.log, StatusChange("factory", order, "processing"))),
                 available_capacity - 1)
    ELSE r

\* variant of step: new production is started before the completed jobs are
\* retired
FactoryStepStartFirst(st, a) ==
    LET r1 == FactoryStartNewProduction(Result(st, <<>>, <<>>),
                                        st.production_capacity - Len(st.active_production))
        completed == SelectSeq(r1.st.active_production,
                               LAMBDA j : st.current_time_step >= j.completion_time)
    IN  FactoryComplete(r1, a, completed)

\* variant of step: the jobs in production do not count against the capacity
FactoryStepFullCapacity(st, a) ==
    LET completed == SelectSeq(st.active_production,
                               LAMBDA j : st.current_time_step >= j.completion_time)
        r1 == FactoryComplete(Result(st, <<>>, <<>>), a, completed)
    IN  FactoryStartNewProduction(r1, st.production_capacity)

\* FactoryAgent.step after its process_messages (current_time_step was
\* incremented before them)
FactoryStep(st, a) ==
    LET completed == SelectSeq(st.active_production,
                               LAMBDA j : st.current_time_step >= j.completion_time)
        r1 == FactoryComplete(Result(st, <<>>, <<>>), a, completed)
    IN  FactoryStartNewProduction(r1, st.production_capacity - Len(r1.st.active_production))

(***************************************************************************)
(* TruckAgent                                                              *)
(***************************************************************************)
\* current_order = None
NoOrder == [order_id |-> None, product_id |-> None, quantity |-> 0, recipient |-> None]

TruckInit(loc) ==
    [current_location_id |-> loc,
     destination_location_id |-> None,
     status |-> "available",
     cargo |-> [p \in {} |-> 0],
     current_cargo_weight |-> 0,
     current_order |-> NoOrder,
     pickup_location_id |-> None,
     delivery_location_id |-> None,
     dispatcher_id |-> None,
     total_distance |-> 0,
     remaining_distance |-> 0]

\* CityMap.calculate_distance raises KeyError when either id is unknown
DistanceKnown(l1, l2) == l1 \in Locations /\ l2 \in Locations
\* CityMap.calculate_distance of two known ids
calculate_distance(l1, l2) == IF l1 = l2 THEN 0 ELSE distance_to(l1, l2)

\* TruckAgent._reset_to_available: the fields are cleared first, so the test of
\* dispatcher_id that guards TRUCK_AVAILABLE reads the cleared field
TruckResetToAvailable(r, a) ==
    LET st1 == [r.st EXCEPT !.status = "available",
                            !.current_order = NoOrder,
                            !.pickup_location_id = None,
                            !.delivery_location_id = None,
                            !.destination_location_id = None,
                            !.dispatcher_id = None,
                            !.total_distance = 0,
                            !.remaining_distance = 0]
    IN  Result(st1,
               IF Truthy(st1.dispatcher_id)
               THEN Append(r.out, Message(a, st1.dispatcher_id, "TRUCK_AVAILABLE",
                                          [x \in {} |-> None]))
               ELSE r.out,
               r.log)

\* TruckAgent._arrive_at_pickup
TruckArriveAtPickup(r, a) ==
    Result([r.st EXCEPT !.current_location_id = r.st.pickup_location_id,
                        !.status = "loading",
                        !.remaining_distance = 0],
           r.out, r.log)

\* TruckAgent._arrive_at_delivery
TruckArriveAtDelivery(r, a) ==
    Result([r.st EXCEPT !.current_location_id = r.st.delivery_location_id,
                        !.status = "unloading",
                        !.remaining_distance = 0],
           r.out, r.log)

\* TruckAgent._start_movement_to_pickup / _start_movement_to_delivery towards dest
TruckStartMovement(r, a, dest, status) ==
    LET st1 == [r.st EXCEPT !.destination_location_id = dest, !.status = status]
    IN  IF DistanceKnown(st1.current_location_id, dest)
        THEN Result([st1 EXCEPT
                       !.total_distance = calculate_distance(st1.current_location_id, dest),
                       !.remaining_distance = calculate_distance(st1.current_location_id, dest)],
                    r.out, r.log)
        ELSE TruckResetToAvailable(Result(st1, r.out, r.log), a)

\* variant of the capacity test of _handle_dispatch_order: no test
DispatchFitsAlways(quantity) == TRUE

\* the capacity test of TruckAgent._handle_dispatch_order
DispatchFits(quantity) == ~(quantity > TruckCapacity)

\* variant of _handle_dispatch_order: the status of the truck is not tested
TruckHandleDispatchOrderAnyStatus(st, a, m) ==
    LET order_id == Get(m.data, "order_id", None)
        product_id == Get(m.data, "product_id", None)
        quantity == Get(m.data, "quantity", 0)
        pickup_location == Get(m.data, "pickup_location", None)
        delivery_location == Get(m.data, "delivery_location", None)
        recipient == Get(m.data, "recipient", None)
        accepted == [st EXCEPT
                       !.current_order = [order_id |-> order_id, product_id |-> product_id,
                                          quantity |-> quantity, recipient |-> recipient],
                       !.pickup_location_id = pickup_location,
                       !.delivery_location_id = delivery_location,
                       !.dispatcher_id = m.sender]
    IN  IF ~(Truthy(order_id) /\ Truthy(product_id) /\ Truthy(pickup_location)
             /\ Truthy(delivery_location) /\ Truthy(recipient))
        THEN Result(st, <<>>, <<>>)
        ELSE IF ~DispatchFits(quantity) THEN Result(st, <<>>, <<>>)
        ELSE IF st.current_location_id = pickup_location
        THEN TruckArriveAtPickup(Result(accepted, <<>>, <<>>), a)
        ELSE TruckStartMovement(Result(accepted, <<>>, <<>>), a, pickup_location,
                                "moving_to_pickup")

\* TruckAgent._handle_dispatch_order
TruckHandleDispatchOrder(st, a, m) ==
    LET order_id == Get(m.data, "order_id", None)
        product_id == Get(m.data, "product_id", None)
        quantity == Get(m.data, "quantity", 0)
        pickup_location == Get(m.data, "pickup_location", None)
        delivery_location == Get(m.data, "delivery_location", None)
        recipient == Get(m.data, "recipient", None)
        accepted == [st EXCEPT
                       !.current_order = [order_id |-> order_id, product_id |-> product_id,
                                          quantity |-> quantity, recipient |-> recipient],
                       !.pickup_location_id = pickup_location,
                       !.delivery_location_id = delivery_location,
                       !.dispatcher_id = m.sender]
    IN  IF st.status /= "available" THEN Result(st, <<>>, <<>>)
        ELSE IF ~(Truthy(order_id) /\ Truthy(product_id) /\ Truthy(pickup_location)
                  /\ Truthy(delivery_location) /\ Truthy(recipient))
        THEN Result(st, <<>>, <<>>)
        ELSE IF ~DispatchFits(quantity) THEN Result(st, <<>>, <<>>)
        ELSE IF st.current_location_id = pickup_location
        THEN TruckArriveAtPickup(Result(accepted, <<>>, <<>>), a)
        ELSE TruckStartMovement(Result(accepted, <<>>, <<>>), a, pickup_location,
                                "moving_to_pickup")

\* TruckAgent.handle_message
TruckHandleMessage(st, a, m) ==
    CASE m.message_type = "DISPATCH_ORDER" -> TruckHandleDispatchOrder(st, a, m)
      [] OTHER -> Result(st, <<>>, <<>>)

\* TruckAgent._move_towards_destination
TruckMove(st) ==
    IF st.total_distance <= 0 THEN st
    ELSE [st EXCEPT !.remaining_distance = @ - Min(TruckSpeed, @)]

\* variant of _has_reached_destination: no tolerance
HasReachedExactly(st) == st.remaining_distance <= 0

\* TruckAgent._has_reached_destination: remaining_distance <= 0.01
HasReachedDestination(st) == st.remaining_distance * 100 <= 1 * DistanceScale

\* TruckAgent._complete_loading
TruckCompleteLoading(st, a) ==
    IF st.current_order = NoOrder THEN TruckResetToAvailable(Result(st, <<>>, <<>>), a)
    ELSE LET product_id == st.current_order.product_id
             quantity == st.current_order.quantity
             loaded == [st EXCEPT
                          !.cargo = InvSet(@, product_id, InvGet(@, product_id) + quantity),
                          !.current_cargo_weight = @ + quantity]
             r == Result(loaded,
                         <<Message(a, st.dispatcher_id, "PICKUP_COMPLETE",
                                   [order_id |-> st.current_order.order_id,
                                    product_id |-> product_id, quantity |-> quantity])>>,
                         <<>>)
         IN  IF st.current_location_id = st.delivery_location_id
             THEN TruckArriveAtDelivery(r, a)
             ELSE TruckStartMovement(r, a, st.delivery_location_id, "moving_to_delivery")

\* TruckAgent._complete_unloading
TruckCompleteUnloading(st, a) ==
    IF st.current_order = NoOrder THEN TruckResetToAvailable(Result(st, <<>>, <<>>), a)
    ELSE LET product_id == st.current_order.product_id
             quantity == st.current_order.quantity
             unloaded ==
                 IF product_id \in DOMAIN st.cargo /\ st.cargo[product_id] >= quantity
                 THEN [st EXCEPT
                         !.cargo = IF st.cargo[product_id] - quantity = 0
                                   THEN MapDel(@, product_id)
                                   ELSE InvSet(@, product_id, st.cargo[product_id] - quantity),
                         !.current_cargo_weight = @ - quantity]
                 ELSE st
             out == <<Message(a, st.dispatcher_id, "DELIVERY_COMPLETE",
                              [order_id |-> st.current_order.order_id,
                               product_id |-> product_id, quantity |-> quantity,
                               delivery_location |-> st.delivery_location_id]),
                      Message(a, st.current_order.recipient, "DELIVERY_NOTIFICATION",
                              [order_id |-> st.current_order.order_id,
                               product_id |-> product_id, quantity |-> quantity])>>
         IN  TruckResetToAvailable(Result(unloaded, out, <<>>), a)

\* TruckAgent.step after its process_messages
TruckStep(st, a) ==
    CASE st.status = "moving_to_pickup" ->
            LET moved == TruckMove(st)
            IN  IF HasReachedDestination(moved)
                THEN TruckArriveAtPickup(Result(moved, <<>>, <<>>), a)
                ELSE Result(moved, <<>>, <<>>)
      [] st.status = "loading" -> TruckCompleteLoading(st, a)
      [] st.status = "moving_to_delivery" ->
            LET moved == TruckMove(st)
            IN  IF HasReachedDestination(moved)
                THEN TruckArriveAtDelivery(Result(moved, <<>>, <<>>), a)
                ELSE Result(moved, <<>>, <<>>)
      [] st.status = "unloading" -> TruckCompleteUnloading(st, a)
      [] OTHER -> Result(st, <<>>, <<>>)


(***************************************************************************)
(* MarketAgent                                                             *)
(* Demand rates, variations and multipliers are counted in hundredths.     *)
(***************************************************************************)
\* the store_ids the market is constructed with; the other store is
\* managed once a REGISTER_STORE names it
MarketStoreIds == <<"store_2">>
\* max(base_demand_rate, 2.0) with the default base_demand_rate 1.0
MarketBaseDemandRate == 200
\* the default demand_variation 0.5
DemandVariation == 50
\* the floor 0.1 of a recomputed rate
MinDemandRate == 10

\* the ends of random.uniform(-demand_variation, demand_variation)
UpdateVariations == {-DemandVariation, DemandVariation}
\* the ends of random.uniform(-demand_variation * 0.5, demand_variation * 0.5)
BaselineVariations == {-(DemandVariation \div 2), DemandVariation \div 2}
\* the rates _end_event can restore
BaselineRates == {Max(MinDemandRate, MarketBaseDemandRate + v) : v \in BaselineVariations}

\* dict assignment d[k] = v
Put(d, k, v) == [x \in DOMAIN d \cup {k} |-> IF x = k THEN v ELSE d[x]]
\* dict.pop(k, None)
Pop(d, k) == [x \in DOMAIN d \ {k} |-> d[x]]
\* list.remove(v) of a list that holds v once
ListRemove(s, v) == SelectSeq(s, LAMBDA x : x /= v)

\* random.sample(ids, k): the sequences of k distinct members of ids
Samples(ids, k) ==
    {s \in [1..k -> Range(ids)] : \A i, j \in 1..k : i /= j => s[i] /= s[j]}

\* MarketAgent.__init__
MarketInit(store_ids) ==
    [store_ids |-> store_ids,
     store_demand_rates |-> [s \in Range(store_ids) |-> MarketBaseDemandRate],
     active_events |-> <<>>,
     event_counter |-> 0,
     last_demand_update |-> 0]

\* _notify_store_demand_change
DemandUpdate(a, store_id, rate) ==
    Message(a, store_id, "DEMAND_UPDATE", [demand_rate |-> rate, source |-> "market_update"])

\* _handle_store_registration
MarketHandleStoreRegistration(st, a, m) ==
    LET store_id == Get(m.data, "store_id", None)
    IN  IF Truthy(store_id) /\ store_id \notin Range(st.store_ids)
        THEN Result([st EXCEPT !.store_ids = Append(@, store_id),
                               !.store_demand_rates = Put(@, store_id, MarketBaseDemandRate)],
                    <<>>, <<>>)
        ELSE Result(st, <<>>, <<>>)

\* _handle_store_unregistration
MarketHandleStoreUnregistration(st, a, m) ==
    LET store_id == Get(m.data, "store_id", None)
    IN  IF Truthy(store_id) /\ store_id \in Range(st.store_ids)
        THEN Result([st EXCEPT !.store_ids = ListRemove(@, store_id),
                               !.store_demand_rates = Pop(@, store_id)],
                    <<>>, <<>>)
        ELSE Result(st, <<>>, <<>>)

\* MarketAgent.handle_message
MarketHandleMessage(st, a, m) ==
    CASE m.message_type = "REGISTER_STORE" -> MarketHandleStoreRegistration(st, a, m)
      [] m.message_type = "UNREGISTER_STORE" -> MarketHandleStoreUnregistration(st, a, m)
      [] OTHER -> Result(st, <<>>, <<>>)

\* the draws of _trigger_demand_spike, _trigger_demand_drop and
\* _trigger_regional_event: the affected stores, a multiplier of the range and
\* the least remaining_duration of the range
EventDraws(store_ids) ==
    LET n == Len(store_ids)
    IN  {[type |-> "demand_spike", affected_stores |-> s, multiplier |-> 200,
          remaining_duration |-> d] :
            s \in UNION {Samples(store_ids, Min(k, n)) : k \in 1..3}, d \in {3}}
        \cup
        {[type |-> "demand_drop", affected_stores |-> s, multiplier |-> 50,
          remaining_duration |-> d] :
            s \in UNION {Samples(store_ids, Min(k, n)) : k \in 1..2}, d \in {4}}
        \cup
        {[type |-> "regional_event", affected_stores |-> store_ids, multiplier |-> mu,
          remaining_duration |-> d] :
            mu \in {150, 50}, d \in {5}}

\* the loop `for store_id in affected_stores` of the three _trigger_ methods
RECURSIVE MarketApplyEvent(_, _, _, _)
MarketApplyEvent(r, a, stores, multiplier) ==
    IF stores = <<>> THEN r
    ELSE LET store_id == Head(stores)
             current_demand == Get(r.st.store_demand_rates, store_id, MarketBaseDemandRate)
             rate == (current_demand * multiplier) \div 100
         IN  MarketApplyEvent(
                 Result([r.st EXCEPT !.store_demand_rates = Put(@, store_id, rate)],
                        Append(r.out, DemandUpdate(a, store_id, rate)), r.log),
                 a, Tail(stores), multiplier)

\* the draw of an advance in which random.random() is not below event_probability
NoEvent == [type |-> None]

\* _check_and_trigger_events and _trigger_random_event
MarketCheckAndTriggerEvents(r, a, draw, clock) ==
    IF draw = NoEvent THEN r
    ELSE LET counter == r.st.event_counter + 1
             event == [id |-> counter, type |-> draw.type,
                       affected_stores |-> draw.affected_stores,
                       multiplier |-> draw.multiplier,
                       remaining_duration |-> draw.remaining_duration,
                       start_time |-> clock]
         IN  MarketApplyEvent(
                 Result([r.st EXCEPT !.event_counter = counter,
                                     !.active_events = Append(@, event)],
                        r.out, r.log),
                 a, draw.affected_stores, draw.multiplier)

\* _end_event: every affected store is set to the base rate plus a small
\* variation and notified
RECURSIVE MarketEndEvent(_, _, _, _)
MarketEndEvent(r, a, stores, variation) ==
    IF stores = <<>> THEN r
    ELSE LET store_id == Head(stores)
             normal_demand == Max(MinDemandRate, MarketBaseDemandRate + variation[store_id])
         IN  MarketEndEvent(
                 Result([r.st EXCEPT !.store_demand_rates = Put(@, store_id, normal_demand)],
                        Append(r.out, DemandUpdate(a, store_id, normal_demand)), r.log),
                 a, Tail(stores), variation)

\* the second loop of _update_active_events
RECURSIVE MarketEndExpired(_, _, _, _)
MarketEndExpired(r, a, expired, variation) ==
    IF expired = <<>> THEN r
    ELSE LET event == Head(expired)
             ended == MarketEndEvent(r, a, event.affected_stores, variation[event.id])
         IN  MarketEndExpired(
                 Result([ended.st EXCEPT !.active_events =
                                             SelectSeq(@, LAMBDA e : e.id /= event.id)],
                        ended.out, ended.log),
                 a, Tail(expired), variation)

\* variant of _update_active_events: an event expires only below zero
MarketUpdateActiveEventsBelow(r, a, variation) ==
    LET aged == [i \in 1..Len(r.st.active_events) |->
                    [r.st.active_events[i] EXCEPT !.remaining_duration = @ - 1]]
        expired == SelectSeq(aged, LAMBDA e : e.remaining_duration < 0)
    IN  MarketEndExpired(Result([r.st EXCEPT !.active_events = aged], r.out, r.log),
                         a, expired, variation)

\* _update_active_events: every event ages by one, and those at or below zero
\* are ended and deleted
MarketUpdateActiveEvents(r, a, variation) ==
    LET aged == [i \in 1..Len(r.st.active_events) |->
                    [r.st.active_events[i] EXCEPT !.remaining_duration = @ - 1]]
        expired == SelectSeq(aged, LAMBDA e : e.remaining_duration <= 0)
    IN  MarketEndExpired(Result([r.st EXCEPT !.active_events = aged], r.out, r.log),
                         a, expired, variation)

\* _get_event_modifier, as a percentage
RECURSIVE MarketEventModifier(_, _)
MarketEventModifier(events, store_id) ==
    IF events = <<>> THEN 100
    ELSE LET rest == MarketEventModifier(Tail(events), store_id)
         IN  IF store_id \in Range(Head(events).affected_stores)
             THEN (rest * Head(events).multiplier) \div 100
             ELSE rest

\* the loop of _update_demand_patterns
RECURSIVE MarketUpdateStores(_, _, _, _)
MarketUpdateStores(r, a, stores, variation) ==
    IF stores = <<>> THEN r
    ELSE LET store_id == Head(stores)
             rate == (Max(MinDemandRate, MarketBaseDemandRate + variation[store_id])
                      * MarketEventModifier(r.st.active_events, store_id)) \div 100
         IN  MarketUpdateStores(
                 Result([r.st EXCEPT !.store_demand_rates = Put(@, store_id, rate)],
                        Append(r.out, DemandUpdate(a, store_id, rate)), r.log),
                 a, Tail(stores), variation)

\* demand_update_interval, in seconds
DemandUpdateInterval == 3

\* _should_update_demand: the interval is measured on the wall clock. A tick
\* of run_simulation with the default time_step_duration takes at most a
\* second, so the interval has not passed before as many ticks have, and after
\* that it may or may not have; before the first update last_demand_update
\* is 0 and the update is due
ShouldUpdateDemand(st, clock) ==
    IF st.last_demand_update = 0 THEN {TRUE}
    ELSE IF clock - st.last_demand_update >= DemandUpdateInterval THEN BOOLEAN
    ELSE {FALSE}

\* `if self._should_update_demand(): self._update_demand_patterns()`
MarketUpdateDemandPatterns(r, a, due, variation, clock) ==
    IF due
    THEN MarketUpdateStores(Result([r.st EXCEPT !.last_demand_update = clock], r.out, r.log),
                            a, r.st.store_ids, variation)
    ELSE r

\* MarketAgent.step after process_messages
MarketStep(st, a, draw, ended, due, updated, clock) ==
    MarketUpdateDemandPatterns(
        MarketUpdateActiveEvents(
            MarketCheckAndTriggerEvents(Result(st, <<>>, <<>>), a, draw, clock),
            a, ended),
        a, due, updated, clock)


(***************************************************************************)
(* SimulationManager                                                       *)
(***************************************************************************)
\* orders in which the agents are registered (setup_default_supply_chain
\* registers factories, warehouses with their trucks, then stores)
RegistrationOrders ==
    { <<"factory_1", "warehouse_1", "truck_warehouse_1_1", "store_2", "store_4">>,
      <<"store_4", "store_2", "truck_warehouse_1_1", "warehouse_1", "factory_1">> }

Idle == [phase |-> "idle", idx |-> 0, sub |-> "none"]

\* the state after the agents are constructed and those of `order` registered
InitOver(order, running, size, store_inventory, warehouse_inventory, factory) ==
    /\ agents = order
    /\ current_step = 0
    /\ simulation_time = 0
    /\ is_running = running
    /\ is_paused = FALSE
    /\ step_result = "none"
    /\ pc = Idle
    /\ batch = <<>>
    /\ active_agents = 0
    /\ queues = [r \in Recipients |-> <<>>]
    /\ subscribers = AgentIds
    /\ max_queue_size = size
    /\ active = [a \in AgentIds |-> TRUE]
    /\ store = [a \in Stores |-> StoreInitOver(store_inventory)]
    /\ wh = [a \in Warehouses |-> WarehouseInitOver(a, warehouse_inventory)]
    /\ fac = [a \in Factories |-> factory]
    /\ truck = [a \in Trucks |-> TruckInit(LocationOf(a))]
    /\ market = [a \in Markets |-> MarketInit(MarketStoreIds)]
    /\ now = 0
    /\ serial = 0
    /\ handled = <<>>
    /\ status_log = {}
    /\ published = [r \in Recipients |-> <<>>]
    /\ last_batch = [r \in Recipients |-> [batch |-> <<>>, pubs |-> <<>>]]
    /\ dispatched = 0
    /\ sched_log = [step_before |-> 0, step_after |-> 0, time_before |-> 0, time_after |-> 0,
                    raised |-> {}, advanced |-> {}, done |-> FALSE,
                    raised_at |-> [a \in AgentIds |-> 0],
                    advanced_at |-> [a \in AgentIds |-> 0],
                    retired_at |-> [a \in AgentIds |-> -1],
                    drained |-> <<>>]
    /\ last_call = "none"

InitWith(order, running, size) ==
    InitOver(order, running, size, [p \in Products |-> StoreInitialInventory],
             [p \in Products |-> WarehouseInitialInventory], FactoryInit)

Init == \E order \in RegistrationOrders : InitWith(order, FALSE, DefaultMaxQueueSize)

\* variant of the loop structure of step: a second delivery pass after the advances
PosRedeliver(phase, idx) ==
    IF idx <= Len(agents) THEN [phase |-> phase, idx |-> idx, sub |-> "drain"]
    ELSE IF phase = "deliver" /\ Len(agents) > 0
    THEN [phase |-> "advance", idx |-> 1, sub |-> "drain"]
    ELSE [phase |-> "deliver", idx |-> 1, sub |-> "drain"]

\* the two loops of SimulationManager.step: the position that follows agent
\* idx - 1 of `phase`
Pos(phase, idx) ==
    IF idx <= Len(agents) THEN [phase |-> phase, idx |-> idx, sub |-> "drain"]
    ELSE IF phase = "deliver" /\ Len(agents) > 0
    THEN [phase |-> "advance", idx |-> 1, sub |-> "drain"]
    ELSE [phase |-> "end", idx |-> 0, sub |-> "none"]

Current == agents[pc.idx]
InLoop == pc.phase \in {"deliver", "advance"}

\* whether recipient r's own advance has already drained its mailbox in this tick
AdvanceDrained(r) ==
    /\ pc.phase = "advance"
    /\ \E j \in 1..pc.idx : agents[j] = r /\ active[r]

\* the envelopes of `out` as published now
Stamped(out) ==
    [i \in 1..Len(out) |->
        [sender |-> out[i].sender, recipient |-> out[i].recipient,
         message_type |-> out[i].message_type, data |-> out[i].data,
         ser |-> serial + i - 1, ptick |-> now, pafter |-> AdvanceDrained(out[i].recipient)]]

\* BaseAgent.send_message for every message of `out`, and the update_status log
Send(r) ==
    /\ queues' = PublishAll(queues, Stamped(r.out))
    /\ serial' = serial + Len(r.out)
    /\ status_log' = status_log \cup Range(r.log)

\* variant of deactivate: the agent stays active
ActiveAfterDeactivateKept(act, a) == act

\* BaseAgent.deactivate: self.active = False
ActiveAfterDeactivate(act, a) == [act EXCEPT ![a] = FALSE]

\* variant of stop_simulation: the agents are left active
ActiveAfterStopKept(act, registered) == act

\* `for agent in self.agents: agent.deactivate()` of stop_simulation
RECURSIVE ActiveAfterStop(_, _)
ActiveAfterStop(act, registered) ==
    IF registered = <<>> THEN act
    ELSE ActiveAfterStop(ActiveAfterDeactivate(act, Head(registered)), Tail(registered))

\* the log once the agents of S, if they still took part, stop taking part
Retired(log, S) ==
    [log EXCEPT !.retired_at =
        [a \in AgentIds |-> IF a \in S /\ log.retired_at[a] = -1 THEN now
                            ELSE log.retired_at[a]]]

\* variant of start_simulation: the counters are reset on every call
StartSimulationResets ==
    /\ pc = Idle
    /\ last_call' = "start"
    /\ is_running' = TRUE
    /\ is_paused' = FALSE
    /\ current_step' = 0
    /\ simulation_time' = 0
    /\ UNCHANGED <<agents, step_result, posVars, busVars, agentVars, ghostVars, drainVars,
                   sched_log>>

\* SimulationManager.start_simulation: returns at once when already running
StartSimulation ==
    /\ pc = Idle
    /\ last_call' = "start"
    /\ IF is_running
       THEN UNCHANGED <<is_running, is_paused, current_step, simulation_time>>
       ELSE /\ is_running' = TRUE
            /\ is_paused' = FALSE
            /\ current_step' = 0
            /\ simulation_time' = 0
    /\ UNCHANGED <<agents, step_result, posVars, busVars, agentVars, ghostVars, drainVars,
                   sched_log>>

\* variant of pause_simulation: no test of is_running
PauseSimulationAlways ==
    /\ pc = Idle
    /\ last_call' = "pause"
    /\ is_paused' = TRUE
    /\ UNCHANGED <<agents, current_step, simulation_time, is_running, step_result, posVars,
                   busVars, agentVars, ghostVars, drainVars, sched_log>>

\* SimulationManager.pause_simulation
PauseSimulation ==
    /\ pc = Idle
    /\ last_call' = "pause"
    /\ is_paused' = IF is_running THEN TRUE ELSE is_paused
    /\ UNCHANGED <<agents, current_step, simulation_time, is_running, step_result, posVars,
                   busVars, agentVars, ghostVars, drainVars, sched_log>>

\* SimulationManager.resume_simulation
ResumeSimulation ==
    /\ pc = Idle
    /\ last_call' = "resume"
    /\ is_paused' = IF is_running THEN FALSE ELSE is_paused
    /\ UNCHANGED <<agents, current_step, simulation_time, is_running, step_result, posVars,
                   busVars, agentVars, ghostVars, drainVars, sched_log>>

\* variant of unregister_agent: the agent is removed from the list only
UnregisterAgentListOnly(a) ==
    /\ pc = Idle
    /\ last_call' = "unregister"
    /\ agents' = SelectSeq(agents, LAMBDA x : x /= a)
    /\ sched_log' = IF a \in Range(agents) THEN Retired(sched_log, {a}) ELSE sched_log
    /\ UNCHANGED <<current_step, simulation_time, is_running, is_paused, step_result, posVars,
                   busVars, agentVars, ghostVars, drainVars>>

\* SimulationManager.unregister_agent: list.remove, then agent.deactivate()
UnregisterAgent(a) ==
    /\ pc = Idle
    /\ last_call' = "unregister"
    /\ IF a \in Range(agents)
       THEN /\ agents' = SelectSeq(agents, LAMBDA x : x /= a)
            /\ active' = ActiveAfterDeactivate(active, a)
            /\ subscribers' = subscribers \ {a}
            /\ queues' = QueueAfterUnsubscribe(queues, a)
            /\ sched_log' = Retired(sched_log, {a})
       ELSE UNCHANGED <<agents, active, subscribers, queues, sched_log>>
    /\ UNCHANGED <<current_step, simulation_time, is_running, is_paused, step_result, posVars,
                   max_queue_size, store, wh, fac, truck, market, ghostVars, drainVars>>

\* SimulationManager.stop_simulation: every registered agent is deactivated
\* (BaseAgent.deactivate unsubscribes it, which deletes its queue) and all
\* queues are cleared
StopSimulation ==
    /\ pc = Idle
    /\ last_call' = "stop"
    /\ is_running' = FALSE
    /\ is_paused' = FALSE
    /\ active' = ActiveAfterStop(active, agents)
    /\ subscribers' = subscribers \ Range(agents)
    /\ queues' = QueueAfterClear(queues)
    /\ sched_log' = Retired(sched_log, Range(agents))
    /\ UNCHANGED <<agents, current_step, simulation_time, step_result, posVars,
                   max_queue_size, store, wh, fac, truck, market, ghostVars, drainVars>>

\* variant of the test at the head of step: only is_running is looked at
StepRefusedWhenStopped == ~is_running

\* `if not self.is_running or self.is_paused: return False`
StepRefused == ~is_running \/ is_paused

\* SimulationManager.step up to its first loop; it returns False at once when
\* the simulation is not running or is paused
StepEnter ==
    /\ pc = Idle
    /\ last_call' = "step"
    /\ IF StepRefused
       THEN /\ step_result' = "False"
            /\ UNCHANGED <<agents, current_step, simulation_time, is_running, is_paused,
                           posVars, busVars, agentVars, ghostVars, drainVars, sched_log>>
       ELSE /\ pc' = Pos("deliver", 1)
            /\ active_agents' = 0
            /\ now' = now + 1
            /\ step_result' = "none"
            /\ sched_log' = [sched_log EXCEPT !.step_before = current_step,
                                              !.time_before = simulation_time,
                                              !.raised = {}, !.advanced = {}, !.done = FALSE]
            /\ UNCHANGED <<agents, current_step, simulation_time, is_running, is_paused,
                           batch, busVars, agentVars, serial, handled, status_log, drainVars>>

\* the serial numbers of a sequence of envelopes, in order
SerialsOf(msgs) == [i \in 1..Len(msgs) |-> msgs[i].ser]

\* `if agent.is_active()` is false in either loop
SkipInactive ==
    /\ InLoop /\ pc.sub = "drain"
    /\ ~active[Current]
    /\ pc' = Pos(pc.phase, pc.idx + 1)
    /\ UNCHANGED <<schedVars, batch, active_agents, busVars, agentVars, ghostVars, drainVars, callVars>>

\* BaseAgent.process_messages up to its loop: deliver_messages, called by the
\* first loop of step and again at the start of every agent's own step();
\* FactoryAgent.step increments current_time_step before it
ProcessMessages ==
    /\ InLoop /\ pc.sub = "drain"
    /\ active[Current]
    /\ batch' = DeliveredBatch(queues, Current)
    /\ queues' = QueueAfterDeliver(queues, Current)
    /\ fac' = IF pc.phase = "advance" /\ Current \in Factories
              THEN [fac EXCEPT ![Current].current_time_step = @ + 1] ELSE fac
    /\ pc' = IF batch' /= <<>> THEN [pc EXCEPT !.sub = "handle"]
             ELSE IF pc.phase = "deliver" THEN Pos("deliver", pc.idx + 1)
             ELSE [pc EXCEPT !.sub = "body"]
    /\ sched_log' = [sched_log EXCEPT !.drained = @ \o SerialsOf(batch')]
    /\ UNCHANGED <<schedVars, active_agents, subscribers, max_queue_size, active, store, wh, truck, market,
                   ghostVars, drainVars, last_call>>

\* an exception inside the handler of envelope m: Order(...) raises
\* ValueError in WarehouseAgent._handle_store_order
HandlerRaises(m) ==
    /\ m.recipient \in Warehouses
    /\ m.message_type = "ORDER_REQUEST"
    /\ ~OrderValid(Get(m.data, "order_id", None), Get(m.data, "product_id", None),
                   Get(m.data, "quantity", 0), Get(m.data, "requester", None))

\* variant of the loop of process_messages: an exception ends the loop
RestOfBatchAbort(msgs, raised) == IF raised THEN <<>> ELSE Tail(msgs)

\* the loop of process_messages goes on to the next message, also after the
\* `except Exception` around handle_message
RestOfBatch(msgs, raised) == Tail(msgs)

\* the position after the handler of the head of the batch returns
AfterHandle ==
    IF RestOfBatch(batch, HandlerRaises(Head(batch))) /= <<>> THEN pc
    ELSE IF pc.phase = "deliver" THEN Pos("deliver", pc.idx + 1)
    ELSE [pc EXCEPT !.sub = "body"]

\* the record of one handler call
Handling(m) ==
    [ser |-> m.ser, recipient |-> m.recipient, message_type |-> m.message_type,
     data |-> m.data,
     ptick |-> m.ptick, pafter |-> m.pafter, htick |-> now, phase |-> pc.phase,
     raised |-> HandlerRaises(m)]

\* one iteration of the loop of process_messages: handle_message(message)
HandleCommon(r) ==
    /\ queues' = PublishAll(queues, Stamped(r.out))
    /\ serial' = serial + Len(r.out)
    /\ status_log' = status_log \cup Range(r.log)
    /\ handled' = Append(handled, Handling(Head(batch)))
    /\ batch' = RestOfBatch(batch, HandlerRaises(Head(batch)))
    /\ pc' = AfterHandle
    /\ UNCHANGED <<schedVars, active_agents, subscribers, max_queue_size, active, now, drainVars, callVars>>

HandleStoreMessage ==
    /\ InLoop /\ pc.sub = "handle" /\ Current \in Stores
    /\ LET r == StoreHandleMessage(store[Current], Current, Head(batch))
       IN  /\ store' = [store EXCEPT ![Current] = r.st]
           /\ HandleCommon(r)
    /\ UNCHANGED <<wh, fac, truck, market>>

HandleWarehouseMessage ==
    /\ InLoop /\ pc.sub = "handle" /\ Current \in Warehouses
    /\ LET r == WarehouseHandleMessage(wh[Current], Current, Head(batch))
       IN  /\ wh' = [wh EXCEPT ![Current] = r.st]
           /\ HandleCommon(r)
    /\ UNCHANGED <<store, fac, truck, market>>

HandleFactoryMessage ==
    /\ InLoop /\ pc.sub = "handle" /\ Current \in Factories
    /\ LET r == FactoryHandleMessage(fac[Current], Current, Head(batch))
       IN  /\ fac' = [fac EXCEPT ![Current] = r.st]
           /\ HandleCommon(r)
    /\ UNCHANGED <<store, wh, truck, market>>

HandleTruckMessage ==
    /\ InLoop /\ pc.sub = "handle" /\ Current \in Trucks
    /\ LET r == TruckHandleMessage(truck[Current], Current, Head(batch))
       IN  /\ truck' = [truck EXCEPT ![Current] = r.st]
           /\ HandleCommon(r)
    /\ UNCHANGED <<store, wh, fac, market>>

HandleMarketMessage ==
    /\ InLoop /\ pc.sub = "handle" /\ Current \in Markets
    /\ LET r == MarketHandleMessage(market[Current], Current, Head(batch))
       IN  /\ market' = [market EXCEPT ![Current] = r.st]
           /\ HandleCommon(r)
    /\ UNCHANGED <<store, wh, fac, truck>>

\* the rest of agent.step() in the second loop of step, then active_agents += 1
BodyCommon(r) ==
    /\ Send(r)
    /\ active_agents' = active_agents + 1
    /\ pc' = Pos("advance", pc.idx + 1)
    /\ sched_log' = [sched_log EXCEPT !.advanced = @ \cup {Current},
                                      !.advanced_at[Current] = now]
    /\ UNCHANGED <<schedVars, batch, subscribers, max_queue_size, active, now, handled, drainVars,
                   last_call>>

StoreStepBody ==
    /\ pc.phase = "advance" /\ pc.sub = "body" /\ Current \in Stores
    /\ \E dem \in [DOMAIN store[Current].inventory -> DemandChoices(store[Current].demand_rate)],
          clock \in ClockReadings(now) :
         LET r == StoreStep(store[Current], Current, dem, clock)
         IN  /\ store' = [store EXCEPT ![Current] = r.st]
             /\ BodyCommon(r)
    /\ UNCHANGED <<wh, fac, truck, market>>

WarehouseStepBody ==
    /\ pc.phase = "advance" /\ pc.sub = "body" /\ Current \in Warehouses
    /\ \E clock \in ClockReadings(now) :
         LET r == WarehouseStep(wh[Current], Current, clock)
         IN  /\ wh' = [wh EXCEPT ![Current] = r.st]
             /\ BodyCommon(r)
    /\ UNCHANGED <<store, fac, truck, market>>

FactoryStepBody ==
    /\ pc.phase = "advance" /\ pc.sub = "body" /\ Current \in Factories
    /\ LET r == FactoryStep(fac[Current], Current)
       IN  /\ fac' = [fac EXCEPT ![Current] = r.st]
           /\ BodyCommon(r)
    /\ UNCHANGED <<store, wh, truck, market>>

TruckStepBody ==
    /\ pc.phase = "advance" /\ pc.sub = "body" /\ Current \in Trucks
    /\ LET r == TruckStep(truck[Current], Current)
       IN  /\ truck' = [truck EXCEPT ![Current] = r.st]
           /\ BodyCommon(r)
    /\ UNCHANGED <<store, wh, fac, market>>

\* the events of st that the next advance ends
Expiring(st) ==
    {st.active_events[i].id : i \in {j \in 1..Len(st.active_events) :
                                         st.active_events[j].remaining_duration <= 1}}

\* the draws of one advance of the market: the event triggered (NoEvent when
\* none is, and always once MaxMarketEvents have been), the variation of every
\* store at the end of every event that ends, whether the periodic update is
\* due, and its variation of every store
MarketStepBody ==
    /\ pc.phase = "advance" /\ pc.sub = "body" /\ Current \in Markets
    /\ \E draw \in {NoEvent} \cup (IF market[Current].event_counter < MaxMarketEvents
                                    THEN EventDraws(market[Current].store_ids) ELSE {}),
          ended \in [Expiring(market[Current]) -> [Stores -> BaselineVariations]],
          due \in ShouldUpdateDemand(market[Current], now) :
         \E updated \in IF due THEN [Stores -> UpdateVariations]
                                ELSE {[s \in Stores |-> 0]} :
             LET r == MarketStep(market[Current], Current, draw, ended, due, updated, now)
             IN  /\ market' = [market EXCEPT ![Current] = r.st]
                 /\ BodyCommon(r)
    /\ UNCHANGED <<store, wh, fac, truck>>

\* an exception out of agent.step() in the second loop of step: the `except`
\* deactivates the agent (which unsubscribes it) and active_agents is not
\* incremented
AdvanceRaises ==
    /\ pc.phase = "advance" /\ pc.sub = "body"
    /\ active' = ActiveAfterDeactivate(active, Current)
    /\ subscribers' = subscribers \ {Current}
    /\ queues' = QueueAfterUnsubscribe(queues, Current)
    /\ pc' = Pos("advance", pc.idx + 1)
    /\ sched_log' = Retired([sched_log EXCEPT !.raised = @ \cup {Current},
                                              !.advanced = @ \cup {Current},
                                              !.raised_at[Current] = now,
                                              !.advanced_at[Current] = now], {Current})
    /\ UNCHANGED <<schedVars, batch, active_agents, max_queue_size, store, wh, fac, truck, market,
                   ghostVars, drainVars, last_call>>

\* variant of the test at the end of step: the tick never stops the simulation
StopsAfterNever(n) == FALSE

\* variant of the test at the end of step: stop as soon as one agent is missing
StopsAfterAnyLoss(n) == n < Len(agents)

\* `if active_agents == 0` at the end of step
StopsAfter(n) == n = 0

\* the end of step: the counters advance; with no active agent left it calls
\* stop_simulation (every registered agent deactivated and unsubscribed, all
\* queues cleared) and returns False
StepExit ==
    /\ pc.phase = "end"
    /\ current_step' = current_step + 1
    /\ simulation_time' = simulation_time + TimeStepDuration
    /\ pc' = Idle
    /\ IF StopsAfter(active_agents)
       THEN /\ is_running' = FALSE
            /\ is_paused' = FALSE
            /\ active' = ActiveAfterStop(active, agents)
            /\ subscribers' = subscribers \ Range(agents)
            /\ queues' = QueueAfterClear(queues)
            /\ step_result' = "False"
       ELSE /\ step_result' = "True"
            /\ UNCHANGED <<is_running, is_paused, active, subscribers, queues>>
    /\ sched_log' = LET l == [sched_log EXCEPT !.done = TRUE,
                                               !.step_after = current_step',
                                               !.time_after = simulation_time']
                    IN  IF StopsAfter(active_agents) THEN Retired(l, Range(agents)) ELSE l
    /\ UNCHANGED <<agents, batch, active_agents, max_queue_size, store, wh, fac, truck, market,
                   ghostVars, drainVars, last_call>>

SpecStepEnter == now < MaxTicks /\ StepEnter

Next ==
    \/ StartSimulation
    \/ StopSimulation
    \/ SpecStepEnter
    \/ SkipInactive
    \/ ProcessMessages
    \/ HandleStoreMessage
    \/ HandleWarehouseMessage
    \/ HandleFactoryMessage
    \/ HandleTruckMessage
    \/ StoreStepBody
    \/ WarehouseStepBody
    \/ FactoryStepBody
    \/ TruckStepBody
    \/ StepExit

Spec == Init /\ [][Next]_vars


(***************************************************************************)
(* BusSpec: the MessageBus under arbitrary calls of its operations         *)
(***************************************************************************)
BusRecipients == {"store_2", "warehouse_1"}

BusInit ==
    InitWith(<<"factory_1", "warehouse_1", "truck_warehouse_1_1", "store_2", "store_4">>,
             FALSE, BusQueueSize)

\* send_message(r, ...) by any caller
BusPublish(r) ==
    /\ serial < MaxPublishes
    /\ LET m == Stamped(<<Message(External, r, "PING", [n |-> serial])>>)[1]
       IN  /\ queues' = Publish(queues, m)
           /\ published' = [published EXCEPT ![r] = Append(@, m.ser)]
    /\ serial' = serial + 1
    /\ UNCHANGED <<schedVars, posVars, subscribers, max_queue_size, agentVars,
                   now, handled, status_log, last_batch, dispatched, callVars>>

\* process_messages of recipient a with a handler that only records its calls
BusProcessMessages(a) ==
    /\ LET delivered == DeliveredBatch(queues, a)
       IN  /\ handled' = handled \o [i \in 1..Len(delivered) |-> Handling(delivered[i])]
           /\ last_batch' = [last_batch EXCEPT ![a] =
                  [batch |-> [i \in 1..Len(delivered) |-> delivered[i].ser],
                   pubs |-> published[a]]]
    /\ queues' = QueueAfterDeliver(queues, a)
    /\ published' = [published EXCEPT ![a] = <<>>]
    /\ UNCHANGED <<schedVars, posVars, subscribers, max_queue_size, agentVars,
                   now, serial, status_log, dispatched, callVars>>

\* MessageBus.unsubscribe
BusUnsubscribe(a) ==
    /\ a \in subscribers
    /\ subscribers' = subscribers \ {a}
    /\ queues' = QueueAfterUnsubscribe(queues, a)
    /\ published' = [published EXCEPT ![a] = <<>>]
    /\ UNCHANGED <<schedVars, posVars, max_queue_size, agentVars, ghostVars,
                   last_batch, dispatched, callVars>>

\* MessageBus.subscribe
BusSubscribe(a) ==
    /\ a \notin subscribers
    /\ subscribers' = subscribers \cup {a}
    /\ UNCHANGED <<schedVars, posVars, queues, max_queue_size, agentVars, ghostVars, drainVars, callVars>>

\* MessageBus.clear_all_queues
BusClearAllQueues ==
    /\ queues' = QueueAfterClear(queues)
    /\ published' = [r \in Recipients |-> <<>>]
    /\ UNCHANGED <<schedVars, posVars, subscribers, max_queue_size, agentVars, ghostVars,
                   last_batch, dispatched, callVars>>

BusNext ==
    \/ \E r \in BusRecipients : BusPublish(r)
    \/ \E a \in BusRecipients : BusProcessMessages(a)
    \/ \E a \in BusRecipients : BusUnsubscribe(a)
    \/ \E a \in BusRecipients : BusSubscribe(a)
    \/ BusClearAllQueues

BusSpec == BusInit /\ [][BusNext]_vars

(***************************************************************************)
(* TruckSpec: one truck, registered alone, and the callers that dispatch it*)
(***************************************************************************)
TheTruck == "truck_warehouse_1_1"

TruckSpecInit == InitWith(<<TheTruck>>, FALSE, DefaultMaxQueueSize)

\* the payload fields of a DISPATCH_ORDER
DispatchFields ==
    {"order_id", "product_id", "quantity", "pickup_location", "delivery_location", "recipient"}

\* the payloads of the DISPATCH_ORDER a caller may publish now: a delivery
\* from the warehouse to a store, to the warehouse itself or to the factory,
\* a pickup at a store, a quantity above the capacity, a pickup or a delivery
\* at loc_x, an id the CityMap does not hold, and the first payload without
\* one of its fields
DispatchPayloads ==
    LET Full(quantity, pickup, delivery) ==
            [order_id |-> "order_" \o ToStr(dispatched), product_id |-> "product_1",
             quantity |-> quantity, pickup_location |-> pickup,
             delivery_location |-> delivery, recipient |-> "store_2"]
        base == Full(TruckCapacity - 1, "loc_w", "loc_s2")
    IN  {Full(TruckCapacity - 1, "loc_w", delivery) :
            delivery \in {"loc_s2", "loc_s4", "loc_f", "loc_w", "loc_x"}}
        \cup {Full(TruckCapacity - 1, "loc_s2", "loc_w"),
              Full(TruckCapacity - 1, "loc_x", "loc_s2"),
              Full(TruckCapacity + 1, "loc_w", "loc_s2")}
        \cup {[k \in DispatchFields \ {f} |-> base[k]] : f \in DispatchFields}

\* a caller publishes a DISPATCH_ORDER between two ticks
PublishDispatch ==
    /\ pc = Idle
    /\ dispatched < MaxDispatches
    /\ \E data \in DispatchPayloads :
         queues' = PublishAll(queues,
                              Stamped(<<Message(External, TheTruck, "DISPATCH_ORDER", data)>>))
    /\ serial' = serial + 1
    /\ dispatched' = dispatched + 1
    /\ UNCHANGED <<schedVars, posVars, subscribers, max_queue_size, agentVars,
                   now, handled, status_log, published, last_batch, callVars>>

TruckSpecStepEnter == now < MaxTruckTicks /\ StepEnter

TruckNext ==
    \/ StartSimulation
    \/ PublishDispatch
    \/ TruckSpecStepEnter
    \/ ProcessMessages
    \/ HandleTruckMessage
    \/ TruckStepBody
    \/ StepExit

TruckSpec == TruckSpecInit /\ [][TruckNext]_vars


(***************************************************************************)
(* SchedSpec: the SimulationManager under arbitrary calls of its           *)
(* operations between two ticks, with agents whose step() may raise and a  *)
(* caller that publishes well-formed and malformed ORDER_REQUEST messages  *)
(***************************************************************************)
SchedAgents == <<"warehouse_1", "truck_warehouse_1_1">>

SchedInit == InitWith(SchedAgents, FALSE, DefaultMaxQueueSize)

\* a caller publishes an ORDER_REQUEST to the warehouse between two ticks;
\* Order(...) raises ValueError on the quantity 0
PublishOrderRequest ==
    /\ pc = Idle
    /\ dispatched < MaxOrderRequests
    /\ \E quantity \in {0, 2} :
         LET data == [order_id |-> "order_" \o ToStr(dispatched), product_id |-> "product_1",
                      quantity |-> quantity, requester |-> External,
                      delivery_location |-> "loc_s2"]
         IN  queues' = PublishAll(queues,
                                  Stamped(<<Message(External, "warehouse_1", "ORDER_REQUEST",
                                                    data)>>))
    /\ serial' = serial + 1
    /\ dispatched' = dispatched + 1
    /\ UNCHANGED <<schedVars, posVars, subscribers, max_queue_size, agentVars,
                   now, handled, status_log, published, last_batch, sched_log>>
    /\ last_call' = "publish"

SchedStepEnter == now < MaxSchedTicks /\ StepEnter

SchedNext ==
    \/ StartSimulation
    \/ StopSimulation
    \/ PauseSimulation
    \/ ResumeSimulation
    \/ \E a \in Range(SchedAgents) : UnregisterAgent(a)
    \/ PublishOrderRequest
    \/ SchedStepEnter
    \/ SkipInactive
    \/ ProcessMessages
    \/ HandleWarehouseMessage
    \/ HandleTruckMessage
    \/ WarehouseStepBody
    \/ TruckStepBody
    \/ AdvanceRaises
    \/ StepExit

SchedSpec == SchedInit /\ [][SchedNext]_vars


(***************************************************************************)
(* WhSpec: one WarehouseAgent holding two products, alone in the registry, *)
(* under the messages its stores, its truck and the factory may send it    *)
(***************************************************************************)
TheWarehouse == "warehouse_1"

\* the warehouse is constructed with an inventory above or at its threshold
WhInit ==
    \E level \in {WarehouseReorderThreshold, WarehouseInitialInventory} :
        InitOver(<<TheWarehouse>>, FALSE, DefaultMaxQueueSize,
                 [p \in Products |-> StoreInitialInventory], [p \in Catalog |-> level],
                 FactoryInit)

\* the messages a partner may publish to the warehouse now: an ORDER_REQUEST
\* of a store, a DELIVERY_COMPLETE or TRUCK_AVAILABLE of its truck, a
\* PRODUCTION_COMPLETE of the factory for a factory order it was sent or for
\* an order id the warehouse does not know
WarehouseInbox ==
    LET w == wh[TheWarehouse]
        sent_to_factory == {queues["factory_1"][i].data : i \in 1..Len(queues["factory_1"])}
    IN  {Message("store_2", TheWarehouse, "ORDER_REQUEST",
                 [order_id |-> "order_" \o ToStr(dispatched), product_id |-> p,
                  quantity |-> q, requester |-> "store_2", delivery_location |-> "loc_s2"]) :
            p \in Catalog, q \in {1, 2}}
        \cup {Message(TheTruck, TheWarehouse, "DELIVERY_COMPLETE", [order_id |-> id]) :
                 id \in {w.processing_orders[i].order_id : i \in 1..Len(w.processing_orders)}}
        \cup {Message(TheTruck, TheWarehouse, "TRUCK_AVAILABLE", EmptyMap)}
        \cup {Message("factory_1", TheWarehouse, "PRODUCTION_COMPLETE",
                      [order_id |-> d.order_id, product_id |-> d.product_id,
                       quantity |-> d.quantity]) : d \in sent_to_factory}
        \cup {Message("factory_1", TheWarehouse, "PRODUCTION_COMPLETE",
                      [order_id |-> "order_x", product_id |-> "product_1",
                       quantity |-> WarehouseReorderQuantity])}

PublishToWarehouse ==
    /\ pc = Idle
    /\ dispatched < MaxWhMessages
    /\ \E m \in WarehouseInbox : queues' = PublishAll(queues, Stamped(<<m>>))
    /\ serial' = serial + 1
    /\ dispatched' = dispatched + 1
    /\ last_call' = "publish"
    /\ UNCHANGED <<schedVars, posVars, subscribers, max_queue_size, agentVars,
                   now, handled, status_log, published, last_batch, sched_log>>

WhStepEnter == now < MaxWhTicks /\ StepEnter

WhNext ==
    \/ StartSimulation
    \/ PublishToWarehouse
    \/ WhStepEnter
    \/ ProcessMessages
    \/ HandleWarehouseMessage
    \/ WarehouseStepBody
    \/ StepExit

WhSpec == WhInit /\ [][WhNext]_vars


(***************************************************************************)
(* StoreSpec: one StoreAgent holding two products, alone in the registry,  *)
(* under the messages its warehouse, the trucks and the market may send it *)
(***************************************************************************)
TheStore == "store_2"

StoreSpecInit ==
    InitOver(<<TheStore>>, FALSE, DefaultMaxQueueSize,
             [p \in Catalog |-> StoreInitialInventory],
             [p \in Products |-> WarehouseInitialInventory], FactoryInit)

\* the messages a partner may publish to the store now: for an ORDER_REQUEST
\* the store has sent, the DELIVERY_NOTIFICATION of the truck or the
\* ORDER_REJECTED of the warehouse; a DEMAND_UPDATE of the market
StoreInbox ==
    LET requested == {queues["warehouse_1"][i].data : i \in 1..Len(queues["warehouse_1"])}
    IN  {Message(TheTruck, TheStore, "DELIVERY_NOTIFICATION",
                 [order_id |-> d.order_id, product_id |-> d.product_id,
                  quantity |-> d.quantity]) : d \in requested}
        \cup {Message("warehouse_1", TheStore, "ORDER_REJECTED",
                      [order_id |-> d.order_id, reason |-> "Insufficient inventory"]) :
                 d \in requested}
        \cup {Message("market_1", TheStore, "DEMAND_UPDATE", [demand_rate |-> 2])}

PublishToStore ==
    /\ pc = Idle
    /\ dispatched < MaxStoreMessages
    /\ \E m \in StoreInbox : queues' = PublishAll(queues, Stamped(<<m>>))
    /\ serial' = serial + 1
    /\ dispatched' = dispatched + 1
    /\ last_call' = "publish"
    /\ UNCHANGED <<schedVars, posVars, subscribers, max_queue_size, agentVars,
                   now, handled, status_log, published, last_batch, sched_log>>

StoreSpecStepEnter == now < MaxStoreTicks /\ StepEnter

StoreSpecNext ==
    \/ StartSimulation
    \/ PublishToStore
    \/ StoreSpecStepEnter
    \/ ProcessMessages
    \/ HandleStoreMessage
    \/ StoreStepBody
    \/ StepExit

StoreSpec == StoreSpecInit /\ [][StoreSpecNext]_vars


(***************************************************************************)
(* FactorySpec: one FactoryAgent of capacity 2 and production time 3,      *)
(* alone in the registry, under the FACTORY_ORDER messages of a warehouse  *)
(***************************************************************************)
TheFactory == "factory_1"

FactorySpecInit ==
    InitOver(<<TheFactory>>, FALSE, DefaultMaxQueueSize,
             [p \in Products |-> StoreInitialInventory],
             [p \in Products |-> WarehouseInitialInventory],
             FactoryInitOver(DefaultProductionCapacity, DefaultProductionTime))

\* the FACTORY_ORDER a warehouse may publish now; the ids of its orders differ
FactoryInbox ==
    {Message(TheWarehouse, TheFactory, "FACTORY_ORDER",
             [order_id |-> "order_" \o ToStr(dispatched), product_id |-> p,
              quantity |-> q, requester |-> TheWarehouse]) :
        p \in Products, q \in {1, 2}}

PublishToFactory ==
    /\ pc = Idle
    /\ dispatched < MaxFactoryOrders
    /\ \E m \in FactoryInbox : queues' = PublishAll(queues, Stamped(<<m>>))
    /\ serial' = serial + 1
    /\ dispatched' = dispatched + 1
    /\ last_call' = "publish"
    /\ UNCHANGED <<schedVars, posVars, subscribers, max_queue_size, agentVars,
                   now, handled, status_log, published, last_batch, sched_log>>

FactorySpecStepEnter == now < MaxFactoryTicks /\ StepEnter

FactorySpecNext ==
    \/ StartSimulation
    \/ PublishToFactory
    \/ FactorySpecStepEnter
    \/ ProcessMessages
    \/ HandleFactoryMessage
    \/ FactoryStepBody
    \/ StepExit

FactorySpec == FactorySpecInit /\ [][FactorySpecNext]_vars


(***************************************************************************)
(* LiveSpec: the closed system of Spec whose caller starts the simulation  *)
(* and keeps calling step(), every call running to its end, and never      *)
(* stops it                                                                *)
(***************************************************************************)
\* initial_inventory of the stores of LiveSpec: below the reorder threshold,
\* so that each of them places an order in its first advance
LiveStoreInventory == StoreReorderThreshold - 1

LiveInit ==
    \E order \in RegistrationOrders :
        InitOver(order, FALSE, DefaultMaxQueueSize,
                 [p \in Products |-> LiveStoreInventory],
                 [p \in Products |-> WarehouseInitialInventory], FactoryInit)

LiveStepEnter == now < MaxLiveTicks /\ StepEnter

LiveNext ==
    \/ StartSimulation
    \/ LiveStepEnter
    \/ ProcessMessages
    \/ HandleStoreMessage
    \/ HandleWarehouseMessage
    \/ HandleFactoryMessage
    \/ HandleTruckMessage
    \/ StoreStepBody
    \/ WarehouseStepBody
    \/ FactoryStepBody
    \/ TruckStepBody
    \/ StepExit

LiveSpec == LiveInit /\ [][LiveNext]_vars /\ WF_vars(LiveNext)


(***************************************************************************)
(* CarrySpec: a warehouse and its truck in the registry, and a store that  *)
(* orders quantities within and above the truck's capacity                 *)
(***************************************************************************)
\* initial_inventory of the warehouse of CarrySpec: stock for one order above
\* the truck's capacity and one order within it
CarryWarehouseInventory == TruckCapacity + 1 + StoreReorderQuantity

CarryInit ==
    InitOver(SchedAgents, FALSE, DefaultMaxQueueSize,
             [p \in Products |-> StoreInitialInventory],
             [p \in Products |-> CarryWarehouseInventory], FactoryInit)

\* a store publishes an ORDER_REQUEST to the warehouse between two ticks
PublishCarryRequest ==
    /\ pc = Idle
    /\ dispatched < MaxCarryOrders
    /\ \E quantity \in {StoreReorderQuantity, TruckCapacity + 1} :
         LET data == [order_id |-> "order_" \o ToStr(dispatched), product_id |-> "product_1",
                      quantity |-> quantity, requester |-> TheStore,
                      delivery_location |-> LocationOf(TheStore)]
         IN  queues' = PublishAll(queues,
                                  Stamped(<<Message(TheStore, TheWarehouse, "ORDER_REQUEST",
                                                    data)>>))
    /\ serial' = serial + 1
    /\ dispatched' = dispatched + 1
    /\ last_call' = "publish"
    /\ UNCHANGED <<schedVars, posVars, subscribers, max_queue_size, agentVars,
                   now, handled, status_log, published, last_batch, sched_log>>

CarryStepEnter == now < MaxCarryTicks /\ StepEnter

CarryNext ==
    \/ StartSimulation
    \/ PublishCarryRequest
    \/ CarryStepEnter
    \/ ProcessMessages
    \/ HandleWarehouseMessage
    \/ HandleTruckMessage
    \/ WarehouseStepBody
    \/ TruckStepBody
    \/ StepExit

CarrySpec == CarryInit /\ [][CarryNext]_vars


(***************************************************************************)
(* MarketSpec: the market alone in the registry, under the registrations   *)
(* and unregistrations of stores that its callers send it                  *)
(***************************************************************************)
MarketAgents == <<"market_1">>
TheMarket == "market_1"

MarketSpecInit == InitWith(MarketAgents, FALSE, DefaultMaxQueueSize)

\* a caller publishes REGISTER_STORE or UNREGISTER_STORE between two ticks
PublishStoreRegistration ==
    /\ pc = Idle
    /\ dispatched < MaxMarketMessages
    /\ \E kind \in {"REGISTER_STORE", "UNREGISTER_STORE"}, s \in Stores :
         queues' = PublishAll(queues,
                              Stamped(<<Message(External, TheMarket, kind, [store_id |-> s])>>))
    /\ serial' = serial + 1
    /\ dispatched' = dispatched + 1
    /\ last_call' = "publish"
    /\ UNCHANGED <<schedVars, posVars, subscribers, max_queue_size, agentVars,
                   now, handled, status_log, published, last_batch, sched_log>>

MarketStepEnter == now < MaxMarketTicks /\ StepEnter

MarketNext ==
    \/ StartSimulation
    \/ PublishStoreRegistration
    \/ MarketStepEnter
    \/ ProcessMessages
    \/ HandleMarketMessage
    \/ MarketStepBody
    \/ StepExit

MarketSpec == MarketSpecInit /\ [][MarketNext]_vars


(***************************************************************************)
(* DropSpec: a store, its warehouse and the factory in the registry, under *)
(* messages of their partners that lack one field of their payload         *)
(***************************************************************************)
DropAgents == <<"store_2", "warehouse_1", "factory_1">>

DropInit == InitWith(DropAgents, FALSE, DefaultMaxQueueSize)

\* the payload `data` without one of its fields
Lacking(data) == {[k \in DOMAIN data \ {f} |-> data[k]] : f \in DOMAIN data}

\* the messages a partner may publish now, each without one field of its
\* payload: an ORDER_REQUEST of the store, a FACTORY_ORDER of the warehouse,
\* the DELIVERY_NOTIFICATION of an order the store has placed and the
\* PRODUCTION_COMPLETE of a factory order the warehouse has placed
DropInbox ==
    LET request == [order_id |-> "order_" \o ToStr(dispatched), product_id |-> "product_1",
                    quantity |-> StoreReorderQuantity, requester |-> TheStore,
                    delivery_location |-> LocationOf(TheStore)]
        factory_order == [order_id |-> "order_" \o ToStr(dispatched),
                          product_id |-> "product_1",
                          quantity |-> WarehouseReorderQuantity, requester |-> TheWarehouse]
        Notice(o) == [order_id |-> o.order_id, product_id |-> o.product_id,
                      quantity |-> o.quantity]
    IN  {Message(TheStore, TheWarehouse, "ORDER_REQUEST", d) : d \in Lacking(request)}
        \cup {Message(TheWarehouse, TheFactory, "FACTORY_ORDER", d) :
                 d \in Lacking(factory_order)}
        \cup UNION {{Message(TheTruck, TheStore, "DELIVERY_NOTIFICATION", d) :
                        d \in Lacking(Notice(o))} : o \in Range(store[TheStore].pending_orders)}
        \cup UNION {{Message(TheFactory, TheWarehouse, "PRODUCTION_COMPLETE", d) :
                        d \in Lacking(Notice(o))} :
                    o \in Range(wh[TheWarehouse].pending_factory_orders)}

PublishLacking ==
    /\ pc = Idle
    /\ dispatched < MaxDropMessages
    /\ \E m \in DropInbox : queues' = PublishAll(queues, Stamped(<<m>>))
    /\ serial' = serial + 1
    /\ dispatched' = dispatched + 1
    /\ last_call' = "publish"
    /\ UNCHANGED <<schedVars, posVars, subscribers, max_queue_size, agentVars,
                   now, handled, status_log, published, last_batch, sched_log>>

DropStepEnter == now < MaxDropTicks /\ StepEnter

DropNext ==
    \/ StartSimulation
    \/ PublishLacking
    \/ DropStepEnter
    \/ ProcessMessages
    \/ HandleStoreMessage
    \/ HandleWarehouseMessage
    \/ HandleFactoryMessage
    \/ StoreStepBody
    \/ WarehouseStepBody
    \/ FactoryStepBody
    \/ StepExit

DropSpec == DropInit /\ [][DropNext]_vars


(***************************************************************************)
(* Properties                                                              *)
(***************************************************************************)
HandledIdx == 1..Len(handled)

\* C1 (as stated): a message published during a tick is never handled by its
\* recipient in that same tick; it is first handled in a later tick.
C1_NeverSameTick ==
    \A i \in HandledIdx : handled[i].htick > handled[i].ptick

\* C1 (amended): a message published after its recipient's own advance has
\* drained the mailbox in that tick is handled in the delivery phase of the
\* next tick; every other handled message is handled in the tick it was
\* published in, by the recipient's delivery-phase drain or by the drain at
\* the start of the recipient's advance.
C1_LatencyByDrainOrder ==
    \A i \in HandledIdx :
        IF handled[i].pafter
        THEN handled[i].htick = handled[i].ptick + 1 /\ handled[i].phase = "deliver"
        ELSE handled[i].htick = handled[i].ptick

\* C1 witness: one message was handled in the tick it was published in, during
\* the recipient's advance, and another one only in the next tick.
C1_Witness ==
    /\ \E i \in HandledIdx : handled[i].htick = handled[i].ptick /\ handled[i].phase = "advance"
    /\ \E i \in HandledIdx : handled[i].pafter /\ handled[i].htick = handled[i].ptick + 1

\* C2: after any sequence of publish, drain, unsubscribe and clear calls no
\* mailbox is longer than the configured maximum.
C2_MailboxBound ==
    \A r \in Recipients : Len(queues[r]) <= max_queue_size

\* C2 witness: a mailbox is full after more publishes than it can hold.
C2_Witness ==
    \E r \in Recipients :
        Len(queues[r]) = max_queue_size /\ Len(published[r]) > max_queue_size

\* C3: a drain that follows n publishes to the recipient (none drained or
\* discarded in between) returns the last min(n, max) of them in publish order.
C3_DrainReturnsNewest ==
    \A r \in Recipients :
        last_batch[r].batch =
            LastK(last_batch[r].pubs, Min(Len(last_batch[r].pubs), max_queue_size))

\* C3 witness: a drain after more publishes than the mailbox holds returned a
\* full batch.
C3_Witness ==
    \E r \in Recipients :
        /\ Len(last_batch[r].pubs) > max_queue_size
        /\ Len(last_batch[r].batch) = max_queue_size

\* C4: the envelopes handed to one recipient are handed over in the order of
\* their publication, inside one batch and across drains.
C4_Fifo ==
    \A i, j \in HandledIdx :
        (i < j /\ handled[i].recipient = handled[j].recipient)
            => handled[i].ser < handled[j].ser

\* C4 witness: a recipient was handed a batch of two envelopes after an
\* earlier drain had handed it others.
C4_Witness ==
    \E r \in Recipients :
        /\ Len(last_batch[r].batch) >= 2
        /\ Cardinality({i \in HandledIdx : handled[i].recipient = r})
               > Len(last_batch[r].batch)

\* C5: no envelope is handed to a handler twice; a mailbox into which nothing
\* was published since its last drain is empty, and draining it returns the
\* empty sequence.
C5_AtMostOnce ==
    /\ \A i, j \in HandledIdx : i /= j => handled[i].ser /= handled[j].ser
    /\ \A r \in Recipients : published[r] = <<>> => queues[r] = <<>>
    /\ \A r \in Recipients : last_batch[r].pubs = <<>> => last_batch[r].batch = <<>>

\* C5 witness: a recipient that had been handed envelopes was drained again
\* with nothing published in between.
C5_Witness ==
    \E r \in Recipients :
        /\ last_batch[r].pubs = <<>>
        /\ \E i \in HandledIdx : handled[i].recipient = r
        /\ published[r] = <<>>

\* the quantity of product p held by all stores, warehouses, factories and trucks
TotalOf(p) ==
    SumSeq([i \in 1..Len(agents) |->
        LET a == agents[i]
        IN  CASE a \in Stores -> InvGet(store[a].inventory, p)
              [] a \in Warehouses -> InvGet(wh[a].inventory, p)
              [] a \in Factories -> InvGet(fac[a].finished_goods_inventory, p)
              [] OTHER -> InvGet(truck[a].cargo, p)])

\* the step is the rest of a store's advance (customer demand, reorder scan)
IsStoreAdvance ==
    pc.phase = "advance" /\ pc.sub = "body" /\ agents[pc.idx] \in Stores

\* C6 (as stated): for a fixed product the total over all store, warehouse and
\* factory inventories plus all truck cargo changes only in a store's customer
\* sale, which lowers it; every other step leaves it unchanged.
C6_Conservation ==
    [][\A p \in Products :
          \/ TotalOf(p)' = TotalOf(p)
          \/ IsStoreAdvance /\ TotalOf(p)' < TotalOf(p)]_vars

C9_CargoWithinCapacity ==
    \A t \in Trucks :
        /\ truck[t].current_cargo_weight <= TruckCapacity
        /\ \A p \in DOMAIN truck[t].cargo : truck[t].cargo[p] <= TruckCapacity

\* C10: no inventory quantity of a store, a warehouse or a factory is negative.
C10_InventoriesNonNegative ==
    /\ \A s \in Stores : \A p \in DOMAIN store[s].inventory : store[s].inventory[p] >= 0
    /\ \A w \in Warehouses : \A p \in DOMAIN wh[w].inventory : wh[w].inventory[p] >= 0
    /\ \A f \in Factories : \A p \in DOMAIN fac[f].finished_goods_inventory :
           fac[f].finished_goods_inventory[p] >= 0

\* C10 witness: one warehouse advance has processed two pending orders for the
\* same product, dispatching one and rejecting the other for lack of stock,
\* while a store has sold its last unit.
C10_Witness ==
    /\ \E w \in Warehouses, t \in Trucks, s \in Stores :
          /\ \E i \in 1..Len(queues[t]) :
                 /\ queues[t][i].message_type = "DISPATCH_ORDER"
                 /\ queues[t][i].sender = w /\ queues[t][i].ptick = now
          /\ \E i \in 1..Len(queues[s]) :
                 /\ queues[s][i].message_type = "ORDER_REJECTED"
                 /\ queues[s][i].sender = w /\ queues[s][i].ptick = now
          /\ \A p \in Products : wh[w].inventory[p] < StoreReorderQuantity
    /\ \E s \in Stores, p \in Products : store[s].inventory[p] = 0

\* C11: when an agent's advance raises during a tick, that agent is inactive and
\* unsubscribed from then on, every registered agent that is active at the end
\* of the loop has had its advance invoked in that tick, the tick counter is
\* incremented by the tick, and the advance of the faulted agent is invoked in
\* no later tick.
C11_AdvanceFaultIsolated ==
    /\ \A a \in AgentIds :
          sched_log.raised_at[a] > 0 =>
              /\ ~active[a]
              /\ a \notin subscribers
              /\ sched_log.advanced_at[a] = sched_log.raised_at[a]
    /\ pc.phase = "end" =>
          \A a \in Range(agents) : active[a] => a \in sched_log.advanced
    /\ sched_log.done /\ sched_log.raised /= {} =>
          sched_log.step_after = sched_log.step_before + 1

\* C11 witness: a tick has ended in which the advance of one agent raised and
\* the advance of another agent, still active, was invoked; a later tick has
\* ended as well.
C11_Witness ==
    /\ sched_log.done
    /\ \E a \in AgentIds : sched_log.raised_at[a] > 0 /\ sched_log.raised_at[a] < now
    /\ \E a \in sched_log.advanced : active[a] /\ sched_log.raised_at[a] = 0


\* C12: a tick asked for while the scheduler is not running or is paused
\* returns failure and changes nothing: the tick counter, the simulated time,
\* every mailbox, every agent's state, the registry and the flags are
\* unchanged, and no handler or advance is invoked.
C12_RefusedTickChangesNothing ==
    [][pc = Idle /\ last_call' = "step" /\ (~is_running \/ is_paused)
         => /\ step_result' = "False"
            /\ pc' = Idle
            /\ handled' = handled
            /\ sched_log' = sched_log
            /\ UNCHANGED <<agents, current_step, simulation_time, is_running, is_paused,
                           batch, active_agents, busVars, agentVars>>]_vars

\* C12 witness: a tick was refused while the scheduler was paused with a
\* message waiting in a mailbox, after an earlier tick had run.
C12_Witness ==
    /\ last_call = "step" /\ step_result = "False"
    /\ is_running /\ is_paused
    /\ current_step > 0
    /\ \E r \in Recipients : queues[r] /= <<>>


\* C13: the end of a tick moves the scheduler from running to stopped exactly
\* when no registered agent is active at that point; when the advance of at
\* least one agent returned normally in the tick the scheduler stays running,
\* whatever faults of handlers or advances the tick has seen.
C13_StopsExactlyWhenNoneActive ==
    [][pc.phase = "end" /\ pc' = Idle
         => /\ is_running
            /\ ~is_running' <=> (\A a \in Range(agents) : ~active[a])
            /\ sched_log.advanced \ sched_log.raised /= {} => is_running'
            /\ step_result' = IF is_running' THEN "True" ELSE "False"]_vars

\* C13 witness: a first tick in which a handler and the advance of one agent
\* raised left the scheduler running, and the tick after it, in which the
\* advance of the last active agent raised, stopped it.
C13_Witness ==
    /\ pc = Idle /\ sched_log.done /\ last_call = "step"
    /\ ~is_running /\ step_result = "False"
    /\ \E a \in AgentIds : sched_log.raised_at[a] > 0 /\ sched_log.raised_at[a] < now
    /\ \E a \in AgentIds : sched_log.raised_at[a] = now
    /\ \E i \in HandledIdx : handled[i].raised


\* C14: right after a call of stop, whatever the state it was called in, the
\* scheduler is neither running nor paused, every registered agent is
\* inactive and every mailbox of the bus is empty.
C14_AfterStop ==
    last_call = "stop" =>
        /\ ~is_running /\ ~is_paused
        /\ \A a \in Range(agents) : ~active[a]
        /\ \A r \in Recipients : queues[r] = <<>>

\* C14 witness: stop was called after a tick, it retired a registered agent
\* whose advance never raised, and a message that was published is gone
\* without a handler ever having been called.
C14_Witness ==
    /\ last_call = "stop" /\ now > 0
    /\ \E a \in Range(agents) : sched_log.raised_at[a] = 0 /\ sched_log.retired_at[a] = now
    /\ dispatched > 0 /\ handled = <<>>


\* C15: a call of start in the stopped state makes the scheduler running and
\* not paused with tick counter 0 and simulated time 0 and changes nothing
\* else; a call of start while the scheduler is running changes nothing, the
\* tick counter included.
C15_StartOnlyFromStopped ==
    [][pc = Idle /\ last_call' = "start"
         => /\ IF is_running
               THEN UNCHANGED <<is_running, is_paused, current_step, simulation_time>>
               ELSE /\ is_running' /\ ~is_paused'
                    /\ current_step' = 0 /\ simulation_time' = 0
            /\ sched_log' = sched_log
            /\ UNCHANGED <<agents, step_result, posVars, busVars, agentVars, ghostVars>>]_vars

\* C15 witness: start was called while the scheduler was running (here also
\* paused) and the tick counter still has the value the last tick left.
C15_Witness ==
    /\ last_call = "start"
    /\ is_running /\ is_paused
    /\ current_step > 0 /\ current_step = sched_log.step_after


\* C16 (as stated): paused implies running in every reachable state; pause
\* and resume change nothing when the scheduler is not running; stop and
\* start both leave the paused flag clear.
C16_StartAndStopClearPaused ==
    [][/\ is_paused' => is_running'
       /\ pc = Idle /\ last_call' \in {"pause", "resume"} /\ ~is_running
            => UNCHANGED <<schedVars, posVars, busVars, agentVars, ghostVars, sched_log>>
       /\ pc = Idle /\ last_call' \in {"stop", "start"} => ~is_paused']_vars

\* C16 (amended): paused implies running in every reachable state; pause and
\* resume change nothing when the scheduler is not running; stop leaves the
\* paused flag clear; start leaves it clear when called in the stopped state
\* and leaves it as it is, set or clear, when called while running.
C16_PausedImpliesRunning ==
    [][/\ is_paused => is_running
       /\ is_paused' => is_running'
       /\ pc = Idle /\ last_call' \in {"pause", "resume"} /\ ~is_running
            => UNCHANGED <<schedVars, posVars, busVars, agentVars, ghostVars, sched_log>>
       /\ pc = Idle /\ last_call' = "stop" => ~is_paused'
       /\ pc = Idle /\ last_call' = "start"
            => is_paused' = (is_running /\ is_paused)]_vars

\* C16 witness: start was called on a scheduler that was paused before its
\* first tick, and the scheduler is still paused.
C16_Witness ==
    /\ last_call = "start"
    /\ is_running /\ is_paused
    /\ now = 0


\* C17: once an agent has been unregistered or deactivated, no later tick calls
\* its handler or its advance; the unregistering or the deactivation after a
\* raising advance empties its mailbox and unsubscribes it in that very
\* step and changes no field, mailbox, flag or subscription of any other
\* agent and no relative order in the registry; and every other registered
\* active agent still has its advance invoked in every tick that ends.
C17_RetiredAgentLeftAlone ==
    [][/\ \A i \in 1..Len(handled') :
            sched_log'.retired_at[handled'[i].recipient] >= 0
                => handled'[i].htick <= sched_log'.retired_at[handled'[i].recipient]
       /\ \A a \in AgentIds :
            sched_log'.retired_at[a] >= 0
                => /\ sched_log'.advanced_at[a] <= sched_log'.retired_at[a]
                   /\ ~active'[a]
       /\ \A a \in AgentIds :
            (\/ pc = Idle /\ last_call' = "unregister" /\ a \in Range(agents) \ Range(agents')
             \/ pc.phase = "advance" /\ a \in sched_log'.raised \ sched_log.raised)
            => /\ queues'[a] = <<>> /\ a \notin subscribers' /\ ~active'[a]
               /\ agents' = SelectSeq(agents, LAMBDA x : x \in Range(agents'))
               /\ Range(agents) \ Range(agents') \subseteq {a}
               /\ \A b \in AgentIds \ {a} :
                     /\ queues'[b] = queues[b]
                     /\ active'[b] = active[b]
                     /\ b \in subscribers' <=> b \in subscribers
               /\ UNCHANGED <<store, wh, fac, truck, handled, current_step, simulation_time,
                              is_running, is_paused>>
       /\ pc'.phase = "end" =>
            \A b \in Range(agents') : active'[b] => b \in sched_log'.advanced]_vars

\* C17 witness: a tick has ended after an agent whose advance never raised was
\* unregistered; a message published to it since then is still waiting, and
\* the advance of another agent, still active, was invoked in that tick.
C17_Witness ==
    /\ pc = Idle /\ sched_log.done
    /\ \E a \in AgentIds \ Range(agents) :
          /\ sched_log.retired_at[a] >= 0 /\ sched_log.retired_at[a] < now
          /\ sched_log.raised_at[a] = 0
          /\ queues[a] /= <<>>
    /\ \E b \in sched_log.advanced : active[b] /\ b \in Range(agents)


\* C18: when the handler of an agent raises on one envelope of a drained
\* batch, every remaining envelope of the batch is still handed to the
\* handler in the order of the drain, the agent stays active, and its advance
\* is still invoked in that tick.
C18_HandlerFaultSkipsNothing ==
    /\ SerialsOf(handled) \o SerialsOf(batch) = sched_log.drained
    /\ \A i \in HandledIdx :
          handled[i].raised /\ handled[i].htick = now /\ ~sched_log.done
              => IF handled[i].recipient \in sched_log.advanced
                 THEN sched_log.advanced_at[handled[i].recipient] = now
                 ELSE active[handled[i].recipient] /\ InLoop
    /\ \A i \in HandledIdx :
          handled[i].raised /\ handled[i].htick = now /\ sched_log.done
              => handled[i].recipient \in sched_log.advanced

\* C18 witness: a tick has ended in which the handler raised on one envelope
\* of a batch and was then called with the next envelope of the same batch,
\* and the advance of the recipient returned normally.
C18_Witness ==
    /\ sched_log.done
    /\ \E i \in HandledIdx :
          /\ i + 1 \in HandledIdx
          /\ handled[i].raised /\ ~handled[i + 1].raised
          /\ handled[i + 1].recipient = handled[i].recipient
          /\ handled[i + 1].htick = handled[i].htick /\ handled[i].htick = now
          /\ handled[i + 1].phase = handled[i].phase
          /\ active[handled[i].recipient]
          /\ handled[i].recipient \in sched_log.advanced \ sched_log.raised


\* the rest of a warehouse's advance, after its process_messages
IsWarehouseAdvance ==
    pc.phase = "advance" /\ pc.sub = "body" /\ agents[pc.idx] \in Warehouses

\* the envelopes published by the step, which carry the serials from `serial` on
SentInStep ==
    UNION {{queues'[r][i] : i \in {j \in 1..Len(queues'[r]) : queues'[r][j].ser >= serial}} :
           r \in Recipients}

\* C19: in a warehouse advance, a pending store order is dispatched exactly
\* when, at its turn in the loop, the inventory left by the orders dispatched
\* before it covers its quantity and a truck is available; the inventory of
\* each product decreases by exactly the quantities of the dispatched orders,
\* each dispatched order takes the first truck id of the available pool into
\* the assigned table, one DISPATCH_ORDER with the order id, product,
\* quantity, pickup point, delivery point and recipient is sent to that
\* truck, and the order is held as processing and no longer as pending.
C19_CoveredOrderIsDispatched ==
    [][IsWarehouseAdvance =>
         LET old == wh[Current]
             new == wh'[Current]
             pend == old.pending_store_orders
             Moved(k) == DictHas(new.processing_orders, pend[k].order_id)
                         /\ ~DictHas(old.processing_orders, pend[k].order_id)
             MovedBefore(k) == {j \in 1..(k - 1) : Moved(j)}
             InvAtTurn(k) ==
                 InvGet(old.inventory, pend[k].product_id)
                 - SumSeq([j \in 1..(k - 1) |->
                              IF Moved(j) /\ pend[j].product_id = pend[k].product_id
                              THEN pend[j].quantity ELSE 0])
             TrucksAtTurn(k) == Len(old.available_trucks) - Cardinality(MovedBefore(k))
             moved == {k \in 1..Len(pend) : Moved(k)}
             dispatches == {m \in SentInStep : m.message_type = "DISPATCH_ORDER"}
         IN  /\ \A k \in 1..Len(pend) :
                   Moved(k) <=> (pend[k].quantity <= InvAtTurn(k) /\ TrucksAtTurn(k) > 0)
             /\ \A p \in Products :
                   InvGet(new.inventory, p) =
                       InvGet(old.inventory, p)
                       - SumSeq([k \in 1..Len(pend) |->
                                    IF Moved(k) /\ pend[k].product_id = p
                                    THEN pend[k].quantity ELSE 0])
             /\ new.available_trucks =
                   SubSeq(old.available_trucks, Cardinality(moved) + 1,
                          Len(old.available_trucks))
             /\ Cardinality(dispatches) = Cardinality(moved)
             /\ \A k \in moved :
                   LET o == pend[k]
                       truck_id == old.available_trucks[Cardinality(MovedBefore(k)) + 1]
                   IN  /\ DictGet(new.processing_orders, o.order_id).status = "processing"
                       /\ ~DictHas(new.pending_store_orders, o.order_id)
                       /\ truck_id \notin DOMAIN old.assigned_trucks
                       /\ truck_id \in DOMAIN new.assigned_trucks
                       /\ new.assigned_trucks[truck_id] = o.order_id
                       /\ \E m \in dispatches :
                             /\ m.sender = Current /\ m.recipient = truck_id
                             /\ m.data = [order_id |-> o.order_id,
                                          product_id |-> o.product_id,
                                          quantity |-> o.quantity,
                                          pickup_location |-> LocationOf(Current),
                                          delivery_location |-> o.delivery_location,
                                          recipient |-> o.requester]]_vars

\* C19 witness: a warehouse advance has just dispatched an order: the
\* DISPATCH_ORDER of this tick waits in the truck's mailbox, the order is held
\* as processing, the truck is assigned to it, and the inventory of the
\* product is the initial inventory less the quantity of the order.
C19_Witness ==
    \E w \in Warehouses, t \in Trucks :
        /\ pc.phase = "advance" /\ pc.idx > 1 /\ agents[pc.idx - 1] = w
        /\ t \in DOMAIN wh[w].assigned_trucks
        /\ wh[w].available_trucks = <<>>
        /\ \E i \in 1..Len(queues[t]), k \in 1..Len(wh[w].processing_orders) :
              LET m == queues[t][i]
                  o == wh[w].processing_orders[k]
              IN  /\ m.message_type = "DISPATCH_ORDER" /\ m.ptick = now
                  /\ m.data.order_id = o.order_id
                  /\ wh[w].assigned_trucks[t] = o.order_id
                  /\ o.status = "processing"
                  /\ wh[w].inventory[o.product_id] = WarehouseInitialInventory - o.quantity


\* C20: in a warehouse advance, a pending store order is rejected exactly when
\* its quantity exceeds the inventory of its product at its turn in the loop,
\* whether or not a truck is available: one ORDER_REJECTED with the order id
\* is sent to the requester, the order leaves the pending table and is not
\* held as processing, and an advance that dispatches nothing leaves the
\* inventory, the available pool, the assigned table and the processing
\* table unchanged and calls update_status on no order.
C20_UncoveredOrderIsRejected ==
    [][IsWarehouseAdvance =>
         LET old == wh[Current]
             new == wh'[Current]
             pend == old.pending_store_orders
             Moved(k) == DictHas(new.processing_orders, pend[k].order_id)
                         /\ ~DictHas(old.processing_orders, pend[k].order_id)
             Rejected(k) == ~Moved(k) /\ ~DictHas(new.pending_store_orders, pend[k].order_id)
             InvAtTurn(k) ==
                 InvGet(old.inventory, pend[k].product_id)
                 - SumSeq([j \in 1..(k - 1) |->
                              IF Moved(j) /\ pend[j].product_id = pend[k].product_id
                              THEN pend[j].quantity ELSE 0])
             rejections == {m \in SentInStep : m.message_type = "ORDER_REJECTED"}
         IN  /\ \A k \in 1..Len(pend) :
                   Rejected(k) <=> pend[k].quantity > InvAtTurn(k)
             /\ \A k \in 1..Len(pend) :
                   Rejected(k) =>
                       /\ Cardinality({m \in rejections :
                                          m.data.order_id = pend[k].order_id}) = 1
                       /\ \A m \in rejections :
                             m.data.order_id = pend[k].order_id
                                 => m.recipient = pend[k].requester /\ m.sender = Current
                       /\ ~DictHas(new.processing_orders, pend[k].order_id)
             /\ Cardinality(rejections) = Cardinality({k \in 1..Len(pend) : Rejected(k)})
             /\ (\A k \in 1..Len(pend) : ~Moved(k)) =>
                   /\ new.inventory = old.inventory
                   /\ new.available_trucks = old.available_trucks
                   /\ new.assigned_trucks = old.assigned_trucks
                   /\ new.processing_orders = old.processing_orders
                   /\ status_log' = status_log]_vars

\* C20 witness: a warehouse advance has just rejected an order while its truck
\* was available: the ORDER_REJECTED of this tick waits in the requester's
\* mailbox, the order is neither pending nor processing, the truck is still
\* in the pool, and the inventory of every product is below the order size.
C20_Witness ==
    \E w \in Warehouses, s \in Stores :
        /\ pc.phase = "advance" /\ pc.idx > 1 /\ agents[pc.idx - 1] = w
        /\ wh[w].available_trucks /= <<>>
        /\ \A p \in Products : wh[w].inventory[p] < StoreReorderQuantity
        /\ \E i \in 1..Len(queues[s]) :
              LET m == queues[s][i]
              IN  /\ m.message_type = "ORDER_REJECTED" /\ m.ptick = now /\ m.sender = w
                  /\ ~DictHas(wh[w].pending_store_orders, m.data.order_id)
                  /\ ~DictHas(wh[w].processing_orders, m.data.order_id)


\* C21: in a warehouse advance, a pending store order that the inventory
\* covers at its turn while no truck is available stays in the pending table
\* as it is, with status pending, is not put into the processing table, adds
\* nothing to the debit of the inventory, and neither a DISPATCH_ORDER nor an
\* ORDER_REJECTED carrying its id is sent; the orders that stay keep their
\* order, and in whatever advance an order finds its quantity covered and a
\* truck available at its turn, it is dispatched in that advance.
C21_CoveredOrderWaitsForTruck ==
    [][IsWarehouseAdvance =>
         LET old == wh[Current]
             new == wh'[Current]
             pend == old.pending_store_orders
             Moved(k) == DictHas(new.processing_orders, pend[k].order_id)
                         /\ ~DictHas(old.processing_orders, pend[k].order_id)
             MovedBefore(k) == {j \in 1..(k - 1) : Moved(j)}
             InvAtTurn(k) ==
                 InvGet(old.inventory, pend[k].product_id)
                 - SumSeq([j \in 1..(k - 1) |->
                              IF Moved(j) /\ pend[j].product_id = pend[k].product_id
                              THEN pend[j].quantity ELSE 0])
             TrucksAtTurn(k) == Len(old.available_trucks) - Cardinality(MovedBefore(k))
             Waits(k) == pend[k].quantity <= InvAtTurn(k) /\ TrucksAtTurn(k) = 0
             waiting == {k \in 1..Len(pend) : Waits(k)}
         IN  /\ \A k \in waiting :
                   /\ \E i \in 1..Len(new.pending_store_orders) :
                         new.pending_store_orders[i] = pend[k]
                   /\ pend[k].status = "pending"
                   /\ ~Moved(k)
                   /\ \A m \in SentInStep :
                         m.message_type \in {"DISPATCH_ORDER", "ORDER_REJECTED"}
                             => m.data.order_id /= pend[k].order_id
             /\ new.pending_store_orders =
                   SelectSeq(pend, LAMBDA o : \E k \in waiting : pend[k] = o)
             /\ \A p \in Catalog :
                   InvGet(new.inventory, p) =
                       InvGet(old.inventory, p)
                       - SumSeq([k \in 1..Len(pend) |->
                                    IF k \notin waiting /\ Moved(k) /\ pend[k].product_id = p
                                    THEN pend[k].quantity ELSE 0])
             /\ \A k \in 1..Len(pend) :
                   pend[k].quantity <= InvAtTurn(k) /\ TrucksAtTurn(k) > 0 => Moved(k)]_vars

\* C21 witness: the warehouse advance of this tick has dispatched an order
\* although every ORDER_REQUEST was handled in an earlier tick, and it is
\* the second dispatch of the run: the order has stayed pending through an
\* earlier advance while the truck was away, and was dispatched once the
\* truck was back.
C21_Witness ==
    /\ pc.phase = "end"
    /\ \E i \in 1..Len(queues[TheTruck]) :
          /\ queues[TheTruck][i].message_type = "DISPATCH_ORDER"
          /\ queues[TheTruck][i].ptick = now
          /\ DictHas(wh[TheWarehouse].processing_orders, queues[TheTruck][i].data.order_id)
    /\ Len(queues[TheTruck]) = 2
    /\ \A i \in HandledIdx :
          handled[i].message_type = "ORDER_REQUEST" => handled[i].htick < now

\* the DELIVERY_NOTIFICATION or the ORDER_REJECTED of the order requested in
\* envelope f has been handled by the store that sent the request
OrderResolved(f) ==
    \E j \in HandledIdx :
        /\ handled[j].message_type \in {"DELIVERY_NOTIFICATION", "ORDER_REJECTED"}
        /\ handled[j].recipient = f.sender
        /\ Get(handled[j].data, "order_id", None) = f.data.order_id

\* C22 (as stated): a store holds at most one pending replenishment order per
\* product, and its advance sends no ORDER_REQUEST for a product for which it
\* has sent an ORDER_REQUEST that was neither delivered nor rejected yet.
C22_OneStoreOrderInFlight ==
    [][/\ \A a \in Stores, p \in Catalog :
              Cardinality({i \in 1..Len(store'[a].pending_orders) :
                              /\ store'[a].pending_orders[i].product_id = p
                              /\ store'[a].pending_orders[i].status = "pending"}) <= 1
       /\ IsStoreAdvance =>
              \A e \in SentInStep :
                  e.message_type = "ORDER_REQUEST" =>
                      \A i \in 1..Len(queues[e.recipient]) :
                          LET f == queues[e.recipient][i]
                          IN  (f.sender = e.sender /\ f.message_type = "ORDER_REQUEST"
                                  /\ f.data.product_id = e.data.product_id)
                                  => OrderResolved(f)]_vars

\* the PRODUCTION_COMPLETE of the factory order in envelope f has been handled
\* by the warehouse that sent the order
ProductionCompleteArrived(f) ==
    \E j \in HandledIdx :
        /\ handled[j].message_type = "PRODUCTION_COMPLETE"
        /\ handled[j].recipient = f.sender
        /\ Get(handled[j].data, "order_id", None) = f.data.order_id

\* C23 (as stated): a warehouse holds at most one outstanding factory order
\* per product, and its advance sends no FACTORY_ORDER for a product for which
\* it has sent a FACTORY_ORDER whose PRODUCTION_COMPLETE has not arrived yet.
C23_OneFactoryOrderInFlight ==
    [][/\ \A a \in Warehouses, p \in Catalog :
              Cardinality({i \in 1..Len(wh'[a].pending_factory_orders) :
                              /\ wh'[a].pending_factory_orders[i].product_id = p
                              /\ wh'[a].pending_factory_orders[i].status = "pending"}) <= 1
       /\ IsWarehouseAdvance =>
              \A e \in SentInStep :
                  e.message_type = "FACTORY_ORDER" =>
                      \A i \in 1..Len(queues["factory_1"]) :
                          LET f == queues["factory_1"][i]
                          IN  (f.sender = e.sender /\ f.data.product_id = e.data.product_id)
                                  => ProductionCompleteArrived(f)]_vars

\* C24: the number of jobs a factory has in production never exceeds its
\* production capacity.
C24_ActiveWithinCapacity ==
    \A f \in Factories : Len(fac[f].active_production) <= fac[f].production_capacity

\* C24 witness: the factory works at capacity while another order waits in
\* its production queue.
C24_Witness ==
    \E f \in Factories :
        /\ Len(fac[f].active_production) = fac[f].production_capacity
        /\ fac[f].production_queue /= <<>>

\* the rest of a factory's advance, after its process_messages
IsFactoryAdvance ==
    pc.phase = "advance" /\ pc.sub = "body" /\ agents[pc.idx] \in Factories

CycleTransitions ==
    {<<"available", "moving_to_pickup">>, <<"moving_to_pickup", "loading">>,
     <<"loading", "moving_to_delivery">>, <<"moving_to_delivery", "unloading">>,
     <<"unloading", "available">>, <<"available", "loading">>}

\* C26 (as stated): the status of a truck changes only along available ->
\* moving_to_pickup -> loading -> moving_to_delivery -> unloading -> available
\* or by the shortcut available -> loading.
C26_OnlyCycleTransitions ==
    [][\A t \in Trucks :
          truck'[t].status /= truck[t].status
              => <<truck[t].status, truck'[t].status>> \in CycleTransitions]_vars

\* C26 (amended): besides the transitions of the cycle and the shortcut
\* available -> loading, a loading truck goes straight to unloading exactly
\* when it stands at the delivery location, and back to available exactly
\* when the CityMap does not know the delivery location; from loading it
\* goes to moving_to_delivery in every other case.
C26_CycleWithLoadingExits ==
    [][\A t \in Trucks :
          /\ truck'[t].status /= truck[t].status
                => <<truck[t].status, truck'[t].status>> \in
                       CycleTransitions \cup {<<"loading", "unloading">>,
                                              <<"loading", "available">>}
          /\ (truck[t].status = "loading" /\ truck'[t].status = "unloading")
                <=> (truck[t].status = "loading" /\ truck'[t] /= truck[t]
                       /\ truck[t].current_location_id = truck[t].delivery_location_id)
          /\ (truck[t].status = "loading" /\ truck'[t].status = "available")
                <=> (truck[t].status = "loading" /\ truck'[t] /= truck[t]
                       /\ truck[t].current_location_id /= truck[t].delivery_location_id
                       /\ ~DistanceKnown(truck[t].current_location_id,
                                         truck[t].delivery_location_id))]_vars

\* C26 witness: a truck is available again with the cargo it loaded for a
\* delivery location the CityMap does not know, after another delivery that
\* it unloaded where it had loaded it.
C26_Witness ==
    /\ truck[TheTruck].status = "available"
    /\ truck[TheTruck].current_cargo_weight > 0
    /\ \E i \in 1..Len(queues["store_2"]) :
          /\ queues["store_2"][i].message_type = "DELIVERY_NOTIFICATION"
          /\ \E j \in 1..Len(queues[External]) :
                /\ queues[External][j].message_type = "PICKUP_COMPLETE"
                /\ queues[External][j].data.order_id = queues["store_2"][i].data.order_id
                /\ queues["store_2"][i].ptick = queues[External][j].ptick + 1

\* the step hands a DISPATCH_ORDER to a truck's handle_message
IsDispatchHandling ==
    /\ pc.phase \in {"deliver", "advance"} /\ pc.sub = "handle"
    /\ agents[pc.idx] \in Trucks
    /\ Head(batch).message_type = "DISPATCH_ORDER"

IsUnloadingAdvance ==
    /\ pc.phase = "advance" /\ pc.sub = "body" /\ agents[pc.idx] \in Trucks
    /\ truck[agents[pc.idx]].status = "unloading"
    /\ truck[agents[pc.idx]].current_order /= NoOrder

\* C28 (as stated): the advance of an unloading truck sends DELIVERY_COMPLETE
\* to the dispatcher, DELIVERY_NOTIFICATION to the recipient of the order and
\* then TRUCK_AVAILABLE to the dispatcher, and leaves the truck available
\* with no current order.
C28_UnloadingNotifiesThenAvailable ==
    [][IsUnloadingAdvance =>
        LET t == agents[pc.idx]
            old == truck[t]
            Sent(k, type, to) ==
                \E e \in SentInStep :
                    /\ e.ser = serial + k
                    /\ e.sender = t
                    /\ e.message_type = type
                    /\ e.recipient = to
        IN  /\ Sent(0, "DELIVERY_COMPLETE", old.dispatcher_id)
            /\ Sent(1, "DELIVERY_NOTIFICATION", old.current_order.recipient)
            /\ Sent(2, "TRUCK_AVAILABLE", old.dispatcher_id)
            /\ truck'[t].status = "available"
            /\ truck'[t].current_order = NoOrder]_vars

\* the rest of the advance of a truck that is moving: a movement tick
IsMovementTick ==
    /\ pc.phase = "advance" /\ pc.sub = "body" /\ agents[pc.idx] \in Trucks
    /\ truck[agents[pc.idx]].status \in {"moving_to_pickup", "moving_to_delivery"}

\* the least whole number that is at least n / d, for n >= 0 and d > 0
CeilDiv(n, d) == (n + d - 1) \div d

\* the tolerance 0.01 of _has_reached_destination in distance units
ArrivalTolerance == DistanceScale \div 100

\* C29 (as stated): on each movement tick the remaining distance of a truck
\* decreases by min(speed, remaining) and stays at or above zero, and the
\* truck leaves the moving status exactly on movement tick ceil(d / speed) of
\* a movement over the distance d.
C29_ArrivesOnCeilTick ==
    [][IsMovementTick =>
        LET t == agents[pc.idx]
            d == truck[t].total_distance
            remaining == truck[t].remaining_distance
            tick == (d - remaining) \div TruckSpeed + 1
        IN  /\ (d - remaining) % TruckSpeed = 0
            /\ truck'[t].remaining_distance = remaining - Min(TruckSpeed, remaining)
            /\ truck'[t].remaining_distance >= 0
            /\ truck'[t].status /= truck[t].status <=> tick = CeilDiv(d, TruckSpeed)]_vars

\* C29 (amended): on each movement tick the remaining distance decreases by
\* min(speed, remaining), never below zero, and the truck leaves the moving
\* status on the first movement tick that brings the remaining distance to
\* 0.01 or less, where the remaining distance is set to zero: for d > 0.01
\* this is movement tick ceil((d - 0.01) / speed), which is ceil(d / speed)
\* unless d exceeds a multiple of the speed by at most 0.01.
C29_ArrivesWithinTolerance ==
    [][IsMovementTick =>
        LET t == agents[pc.idx]
            d == truck[t].total_distance
            remaining == truck[t].remaining_distance
            tick == (d - remaining) \div TruckSpeed + 1
            after == remaining - Min(TruckSpeed, remaining)
            arrives == truck'[t].status /= truck[t].status
        IN  /\ (d - remaining) % TruckSpeed = 0
            /\ d > ArrivalTolerance
            /\ after >= 0
            /\ arrives <=> after <= ArrivalTolerance
            /\ arrives <=> tick = CeilDiv(d - ArrivalTolerance, TruckSpeed)
            /\ truck'[t].remaining_distance = IF arrives THEN 0 ELSE after
            /\ arrives => truck'[t].status =
                             IF truck[t].status = "moving_to_pickup"
                             THEN "loading" ELSE "unloading"]_vars

\* C29 witness: a truck has delivered to a location whose distance exceeds its
\* speed by less than the tolerance after one movement tick: it finished
\* loading in one tick, moved in the next and unloaded in the one after.
C29_Witness ==
    /\ distance_to("loc_w", "loc_s4") > TruckSpeed
    /\ \E i, j \in 1..Len(queues[External]) :
          /\ queues[External][i].message_type = "PICKUP_COMPLETE"
          /\ queues[External][j].message_type = "DELIVERY_COMPLETE"
          /\ queues[External][j].data.order_id = queues[External][i].data.order_id
          /\ queues[External][j].data.delivery_location = "loc_s4"
          /\ queues[External][j].ptick = queues[External][i].ptick + 2

\* the id of the order store a places in its advance of tick n
StoreOrderId(a, n) == a \o "_order_" \o ToStr(10 * n)

\* the status store a holds for the order it placed at tick n, None when it
\* placed none
StoreOrderStatus(a, n) ==
    IF DictHas(store[a].pending_orders, StoreOrderId(a, n))
    THEN DictGet(store[a].pending_orders, StoreOrderId(a, n)).status
    ELSE None

\* the ticks whose orders have ResolveWithin further ticks ahead of them in
\* a run of LiveSpec
EarlyTicks == 1..(MaxLiveTicks - ResolveWithin)

OversizeDispatches ==
    {handled[i].data : i \in {j \in HandledIdx :
                                 /\ handled[j].message_type = "DISPATCH_ORDER"
                                 /\ handled[j].data.quantity > TruckCapacity}}
    \cup {queues[TheTruck][i].data : i \in {j \in 1..Len(queues[TheTruck]) :
                                 /\ queues[TheTruck][j].message_type = "DISPATCH_ORDER"
                                 /\ queues[TheTruck][j].data.quantity > TruckCapacity}}

\* an envelope of one of the kinds `kinds` about the order `id` lies in the
\* mailbox of `recipient` or has been handled by it
HasNews(recipient, kinds, id) ==
    \/ \E i \in 1..Len(queues[recipient]) :
          /\ queues[recipient][i].message_type \in kinds
          /\ Get(queues[recipient][i].data, "order_id", None) = id
    \/ \E i \in HandledIdx :
          /\ handled[i].recipient = recipient
          /\ handled[i].message_type \in kinds
          /\ Get(handled[i].data, "order_id", None) = id

\* C31: once the warehouse has dispatched its truck for a quantity above the
\* truck's capacity, in every later state the truck has taken no order and
\* sent the warehouse nothing about it, the order is still in the
\* warehouse's processing table, the requester has been sent neither a
\* DELIVERY_NOTIFICATION nor an ORDER_REJECTED for it, and the truck id is
\* still assigned and not back in the available pool.
C31_OversizeDispatchStrands ==
    \A d \in OversizeDispatches :
        /\ DictHas(wh[TheWarehouse].processing_orders, d.order_id)
        /\ TheTruck \in DOMAIN wh[TheWarehouse].assigned_trucks
        /\ wh[TheWarehouse].assigned_trucks[TheTruck] = d.order_id
        /\ TheTruck \notin Range(wh[TheWarehouse].available_trucks)
        /\ truck[TheTruck].current_order.order_id /= d.order_id
        /\ ~HasNews(d.recipient, {"DELIVERY_NOTIFICATION", "ORDER_REJECTED"}, d.order_id)
        /\ ~HasNews(TheWarehouse, {"PICKUP_COMPLETE", "DELIVERY_COMPLETE", "TRUCK_AVAILABLE"},
                    d.order_id)

\* the truck dropped a dispatch above its capacity three ticks ago and is
\* idle, while a later order the warehouse could cover waits for a truck.
C31_Witness ==
    /\ pc = Idle
    /\ \E i \in HandledIdx :
          /\ handled[i].message_type = "DISPATCH_ORDER"
          /\ handled[i].data.quantity > TruckCapacity
          /\ handled[i].htick + 3 <= now
    /\ truck[TheTruck].status = "available"
    /\ \E k \in 1..Len(wh[TheWarehouse].pending_store_orders) :
          CanFulfillOrder(wh[TheWarehouse], wh[TheWarehouse].pending_store_orders[k])

\* the payload fields the interface lists for a message kind, which are the
\* fields its sender puts into the payload
RequiredFields(kind) ==
    CASE kind = "ORDER_REQUEST" ->
             {"order_id", "product_id", "quantity", "requester", "delivery_location"}
      [] kind = "FACTORY_ORDER" -> {"order_id", "product_id", "quantity", "requester"}
      [] kind = "PRODUCTION_COMPLETE" -> {"order_id", "product_id", "quantity"}
      [] kind = "DELIVERY_NOTIFICATION" -> {"order_id", "product_id", "quantity"}
      [] OTHER -> {}

\* the step hands a message without one of its required fields to the
\* handle_message of its recipient
IsLackingHandling ==
    /\ InLoop /\ pc.sub = "handle"
    /\ ~(RequiredFields(Head(batch).message_type) \subseteq DOMAIN Head(batch).data)

\* C32: a message that lacks a required payload field is dropped by its
\* recipient: handling it leaves the inventories, order tables, truck pools,
\* status and assignment of every agent unchanged and sends no message.
C32_LackingFieldIsDropped ==
    [][IsLackingHandling => agentVars' = agentVars /\ SentInStep = {}]_vars

\* the FACTORY_ORDER envelopes for product p published by the step
FactoryOrdersSent(p) ==
    {e \in SentInStep : e.message_type = "FACTORY_ORDER" /\ e.data.product_id = p}

\* C33: a warehouse advance sends one FACTORY_ORDER for a product, to the
\* factory and for the configured reorder quantity, when it starts with that
\* product's inventory at or below the reorder threshold and no pending
\* factory order for the product, and none otherwise; an inventory a
\* dispatch has lowered to the threshold is therefore reordered in the
\* warehouse's next advance.
C33_ReorderAtOrBelowThreshold ==
    [][IsWarehouseAdvance =>
         LET old == wh[Current]
         IN  \A p \in DOMAIN old.inventory :
                LET outstanding ==
                        \E i \in 1..Len(old.pending_factory_orders) :
                            /\ old.pending_factory_orders[i].product_id = p
                            /\ old.pending_factory_orders[i].status = "pending"
                IN  IF old.inventory[p] <= WarehouseReorderThreshold /\ ~outstanding
                    THEN /\ Cardinality(FactoryOrdersSent(p)) = 1
                         /\ \A e \in FactoryOrdersSent(p) :
                               /\ e.recipient = "factory_1"
                               /\ e.data.quantity = WarehouseReorderQuantity
                               /\ e.data.requester = Current
                    ELSE FactoryOrdersSent(p) = {}]_vars

\* the dispatch of an order in the advance of one tick lowered a product's
\* inventory from above the threshold to the threshold, and the advance of
\* the following tick has sent the first FACTORY_ORDER for that product.
C33_Witness ==
    \E p \in Catalog :
        /\ \E i \in 1..Len(queues[TheTruck]) :
              /\ queues[TheTruck][i].message_type = "DISPATCH_ORDER"
              /\ queues[TheTruck][i].data.product_id = p
              /\ queues[TheTruck][i].data.quantity
                    = WarehouseInitialInventory - WarehouseReorderThreshold
              /\ queues[TheTruck][i].ptick = now - 1
        /\ \E i \in 1..Len(queues["factory_1"]) :
              /\ queues["factory_1"][i].message_type = "FACTORY_ORDER"
              /\ queues["factory_1"][i].data.product_id = p
              /\ queues["factory_1"][i].ptick = now
        /\ \A i \in 1..Len(queues["factory_1"]) :
              queues["factory_1"][i].data.product_id = p
                  => queues["factory_1"][i].ptick = now

\* the step hands a PRODUCTION_COMPLETE to a warehouse's handle_message
IsProductionCompleteHandling ==
    /\ InLoop /\ pc.sub = "handle"
    /\ agents[pc.idx] \in Warehouses
    /\ Head(batch).message_type = "PRODUCTION_COMPLETE"

\* C34: a warehouse that handles a PRODUCTION_COMPLETE whose order id is in
\* its table of pending factory orders adds the message's quantity to the
\* inventory of the message's product and removes that entry from the table,
\* leaving everything else as it was; for an order id that is not in the
\* table the warehouse is unchanged. It sends nothing either way.
C34_ProductionCompleteCreditsKnownOrder ==
    [][IsProductionCompleteHandling =>
         LET a == agents[pc.idx]
             m == Head(batch)
             old == wh[a]
             new == wh'[a]
             known == \E i \in 1..Len(old.pending_factory_orders) :
                          old.pending_factory_orders[i].order_id = m.data.order_id
         IN  /\ SentInStep = {}
             /\ new.pending_store_orders = old.pending_store_orders
             /\ new.processing_orders = old.processing_orders
             /\ new.available_trucks = old.available_trucks
             /\ new.assigned_trucks = old.assigned_trucks
             /\ IF known
                THEN /\ DOMAIN new.inventory = DOMAIN old.inventory
                     /\ \A q \in DOMAIN old.inventory :
                           new.inventory[q] = old.inventory[q]
                               + (IF q = m.data.product_id THEN m.data.quantity ELSE 0)
                     /\ new.pending_factory_orders
                           = SelectSeq(old.pending_factory_orders,
                                       LAMBDA o : o.order_id /= m.data.order_id)
                     /\ Len(new.pending_factory_orders)
                           = Len(old.pending_factory_orders) - 1
                ELSE /\ new.inventory = old.inventory
                     /\ new.pending_factory_orders = old.pending_factory_orders]_vars

\* the warehouse has handled the PRODUCTION_COMPLETE of a factory order it
\* had placed at the threshold, which was credited and closed, and a
\* PRODUCTION_COMPLETE for an order id it never issued.
C34_Witness ==
    /\ \E i \in HandledIdx :
          /\ handled[i].message_type = "PRODUCTION_COMPLETE"
          /\ handled[i].data.order_id = "order_x"
    /\ \E i \in HandledIdx, p \in Catalog :
          /\ handled[i].message_type = "PRODUCTION_COMPLETE"
          /\ handled[i].data.order_id /= "order_x"
          /\ handled[i].data.product_id = p
          /\ wh[TheWarehouse].inventory[p]
                = WarehouseReorderThreshold + WarehouseReorderQuantity
          /\ \A k \in 1..Len(wh[TheWarehouse].pending_factory_orders) :
                wh[TheWarehouse].pending_factory_orders[k].order_id
                    /= handled[i].data.order_id

\* the rest of a market's advance, after its process_messages
IsMarketAdvance ==
    pc.phase = "advance" /\ pc.sub = "body" /\ agents[pc.idx] \in Markets

\* the values remaining_duration may have when an event of `type` is triggered
InitialCounters(type) ==
    {d.remaining_duration : d \in {x \in EventDraws(MarketStoreIds) : x.type = type}}

\* C35: a market advance lowers the remaining_duration of every event that
\* was active before it by one; an event whose counter thereby reaches zero
\* is removed in that advance and each of its affected stores is sent a
\* DEMAND_UPDATE with a baseline rate (the base rate plus a small variation);
\* after the advance no active event has a counter at or below zero, and the
\* counter of every active event is its initial value less the advances made
\* since it was triggered, so the event is gone within that many advances.
C35_EventsAgeAndExpire ==
    [][IsMarketAdvance =>
         LET a == agents[pc.idx]
             old == market[a].active_events
             new == market'[a].active_events
         IN  /\ \A i \in 1..Len(old) :
                   IF old[i].remaining_duration - 1 <= 0
                   THEN /\ \A j \in 1..Len(new) : new[j].id /= old[i].id
                        /\ \A s \in Range(old[i].affected_stores) :
                              \E m \in SentInStep :
                                  /\ m.recipient = s
                                  /\ m.message_type = "DEMAND_UPDATE"
                                  /\ m.data.demand_rate \in BaselineRates
                   ELSE \E j \in 1..Len(new) :
                            new[j] = [old[i] EXCEPT !.remaining_duration = @ - 1]
             /\ \A j \in 1..Len(new) :
                   /\ new[j].remaining_duration > 0
                   /\ \E c \in InitialCounters(new[j].type) :
                         new[j].remaining_duration = c - (now - new[j].start_time + 1)]_vars

\* the market triggered an event in the first tick, aged it in every advance
\* and ended it in the last, in which the affected store was sent a
\* DEMAND_UPDATE with a baseline rate.
C35_Witness ==
    /\ pc = Idle
    /\ market[TheMarket].event_counter > 0
    /\ market[TheMarket].active_events = <<>>
    /\ \E i \in 1..Len(queues["store_2"]) :
          /\ queues["store_2"][i].message_type = "DEMAND_UPDATE"
          /\ queues["store_2"][i].ptick = now
          /\ queues["store_2"][i].data.demand_rate \in BaselineRates
    /\ \E i \in 1..Len(queues["store_2"]) :
          /\ queues["store_2"][i].ptick = 1
          /\ queues["store_2"][i].data.demand_rate \notin BaselineRates

\* the step hands a DELIVERY_NOTIFICATION to a store's handle_message
IsDeliveryHandling ==
    /\ InLoop /\ pc.sub = "handle"
    /\ agents[pc.idx] \in Stores
    /\ Head(batch).message_type = "DELIVERY_NOTIFICATION"

\* C36: a store's inventory is credited with the quantity of an order at most
\* once: a DELIVERY_NOTIFICATION for an order that an earlier notification
\* has already marked delivered leaves the store's inventory as it was.
C36_CreditedAtMostOnce ==
    [][IsDeliveryHandling =>
         LET a == agents[pc.idx]
             order_id == Get(Head(batch).data, "order_id", None)
         IN  (/\ DictHas(store[a].pending_orders, order_id)
              /\ DictGet(store[a].pending_orders, order_id).status = "delivered")
                 => store'[a].inventory = store[a].inventory]_vars

\* the truck ids WarehouseAgent.__init__ creates for warehouse a
FleetOf(a) == Range(WarehouseInit(a).available_trucks)

\* C37: in every reachable state the available pool and the assigned table
\* of a warehouse are disjoint, the available pool holds no truck id twice,
\* and together they hold exactly the max_trucks truck ids the warehouse was
\* constructed with.
C37_TruckPoolsPartitionFleet ==
    \A a \in Warehouses :
        /\ Range(wh[a].available_trucks) \cap DOMAIN wh[a].assigned_trucks = {}
        /\ Cardinality(Range(wh[a].available_trucks)) = Len(wh[a].available_trucks)
        /\ Range(wh[a].available_trucks) \cup DOMAIN wh[a].assigned_trucks = FleetOf(a)
        /\ Cardinality(FleetOf(a)) = MaxTrucksPerWarehouse

\* the warehouse dispatched its truck and has since handled the truck's
\* DELIVERY_COMPLETE for the order and then its TRUCK_AVAILABLE: the truck is
\* back in the available pool, once.
C37_Witness ==
    /\ \E i \in 1..Len(queues[TheTruck]) :
          queues[TheTruck][i].message_type = "DISPATCH_ORDER"
    /\ \E i, j \in HandledIdx :
          /\ i < j
          /\ handled[i].message_type = "DELIVERY_COMPLETE"
          /\ handled[j].message_type = "TRUCK_AVAILABLE"
    /\ wh[TheWarehouse].available_trucks = <<TheTruck>>
    /\ wh[TheWarehouse].assigned_trucks = EmptyMap

\* a call of step returns in this step: at once, refused, or at its end
StepReturns ==
    \/ pc = Idle /\ pc' = Idle /\ last_call' = "step"
    \/ pc.phase = "end" /\ pc' = Idle

\* a handler was invoked in the tick that is ending
HandledInTick == \E i \in HandledIdx : handled[i].htick = now

AllRetiredBeforeTick ==
    \A a \in Range(agents) : sched_log.retired_at[a] >= 0 /\ sched_log.retired_at[a] < now

OrdersAnnounced(a) ==
    UNION {{[ser |-> queues[r][i].ser, data |-> queues[r][i].data] :
               i \in {j \in 1..Len(queues[r]) :
                         /\ queues[r][j].sender = a
                         /\ queues[r][j].message_type \in {"ORDER_REQUEST", "FACTORY_ORDER"}}} :
           r \in Recipients}

\* C40: two distinct orders created by one store, or by one warehouse, carry
\* different order ids, also when they are created for different products in
\* one advance, so that no entry of the creator's order table, which is keyed
\* by the id, is overwritten by another order.
C40_OrderIdsDistinct ==
    \A a \in Stores \cup Warehouses :
        \A x, y \in OrdersAnnounced(a) :
            x.ser /= y.ser => x.data.order_id /= y.data.order_id

====
